---- MODULE Spec2Model ----
(***************************************************************************)
(* Verification model of the Quant-Enthusiasts risk engine: RiskEngine,    *)
(* Portfolio, MarketData, EuropeanOption and the Black-Scholes kernel.     *)
(*                                                                         *)
(* Numbers.  A C++ double is modelled as a fixed-point integer with three  *)
(* decimals (SCALE units = 1.0).  NaN and the two infinities are three     *)
(* reserved values outside the finite range.  The library functions        *)
(* std::exp, std::log, std::sqrt and std::erf are modelled by fixed-point  *)
(* approximations of the same functions, so every product, quotient and    *)
(* rounding of the source is computed, on a coarser grid.                  *)
(***************************************************************************)
EXTENDS Integers, Sequences, FiniteSets, TLC

\* ------------------------------------------------------------------------
\* Fixed-point arithmetic standing for double
\* ------------------------------------------------------------------------
SCALE == 1000

PosInf == 100000001
NegInf == -100000001
NaN == 100000002

IsNan(x) == x = NaN
IsInf(x) == x = PosInf \/ x = NegInf
IsFinite(x) == ~IsNan(x) /\ ~IsInf(x)

\* x <= 0.0 and x < 0.0 as IEEE comparisons: false for NaN
LeZero(x) == ~IsNan(x) /\ (x = NegInf \/ (x # PosInf /\ x <= 0))
LtZero(x) == ~IsNan(x) /\ (x = NegInf \/ (x # PosInf /\ x < 0))

Abs(x) == IF x < 0 THEN -x ELSE x
Max(a, b) == IF a >= b THEN a ELSE b
Min(a, b) == IF a <= b THEN a ELSE b

\* a / b rounded to the nearest integer, b > 0
RDiv(a, b) == IF a >= 0 THEN (a + b \div 2) \div b
              ELSE -(((-a) + b \div 2) \div b)

\* a double keeps a significand of 53 bits whatever its magnitude; a value of
\* this grid keeps Precision bits, and Round is the rounding to nearest (ties
\* to even) every double operation ends with
Precision == 24

RECURSIVE UlpFrom(_, _)
UlpFrom(x, u) == IF x < u * 2^Precision THEN u ELSE UlpFrom(x, 2 * u)

RoundPos(x, u) ==
    IF 2 * (x % u) > u \/ (2 * (x % u) = u /\ (x \div u) % 2 = 1)
    THEN (x \div u + 1) * u
    ELSE (x \div u) * u

Round(x) == IF x >= 0 THEN RoundPos(x, UlpFrom(x, 1)) ELSE -RoundPos(-x, UlpFrom(-x, 1))

\* fixed-point product and quotient
Mul(a, b) == RDiv(a * b, SCALE)
Div(a, b) == IF b > 0 THEN RDiv(a * SCALE, b) ELSE -RDiv(a * SCALE, -b)

\* integer square root by bisection
RECURSIVE ISqrt(_, _, _)
ISqrt(n, lo, hi) ==
    IF lo >= hi THEN lo
    ELSE LET mid == (lo + hi + 1) \div 2
         IN IF mid * mid <= n THEN ISqrt(n, mid, hi) ELSE ISqrt(n, lo, mid - 1)

\* std::sqrt
Sqrt(x) == LET n == x * SCALE
               r == ISqrt(n, 0, 40000)
           IN IF (r + 1) * (r + 1) - n < n - r * r THEN r + 1 ELSE r

\* Taylor series of exp on [0, 1]
RECURSIVE ExpSeries(_, _, _, _)
ExpSeries(x, n, term, acc) ==
    IF term = 0 \/ n > 12 THEN acc
    ELSE LET t == RDiv(term * x, n * SCALE)
         IN ExpSeries(x, n + 1, t, acc + t)

RECURSIVE ExpPos(_)
ExpPos(x) == IF x <= SCALE THEN ExpSeries(x, 1, SCALE, SCALE)
             ELSE LET h == ExpPos(x \div 2)
                      sq == Mul(h, h)
                  IN IF x % 2 = 1 THEN RDiv(sq * (SCALE + 1), SCALE) ELSE sq

\* std::exp; below -ExpRange the value underflows to 0 on this grid
ExpRange == 7000
Exp(x) == IF x >= 0 THEN ExpPos(Min(x, ExpRange))
          ELSE IF x < -ExpRange THEN 0
          ELSE RDiv(SCALE * SCALE, ExpPos(-x))

\* std::log by ln(x) = 2 atanh((x-1)/(x+1)), after scaling x into [1/2, 2]
Ln2 == 693
RECURSIVE AtanhSeries(_, _, _, _)
AtanhSeries(y2, k, term, acc) ==
    IF term = 0 \/ k > 15 THEN acc
    ELSE LET t == Mul(term, y2)
         IN AtanhSeries(y2, k + 2, t, acc + RDiv(t, k))

RECURSIVE Log(_)
Log(x) == IF x > 2 * SCALE THEN Ln2 + Log(RDiv(x, 2))
          ELSE IF 2 * x < SCALE THEN Log(2 * x) - Ln2
          ELSE LET y == Div(x - SCALE, x + SCALE)
               IN 2 * AtanhSeries(Mul(y, y), 3, y, y)

\* ------------------------------------------------------------------------
\* Black-Scholes kernel (utils/BlackScholes.cpp)
\* ------------------------------------------------------------------------
Sqrt2 == 1414
InvSqrt2Pi == 399

\* std::erf for x >= 0 (Abramowitz-Stegun 7.1.26), odd extension below
ErfPos(x) ==
    LET t == Div(SCALE, SCALE + Mul(328, x))
        poly == Mul(t, 255 + Mul(t, -284 + Mul(t, 1421 + Mul(t, -1453 + Mul(t, 1061)))))
    IN SCALE - Mul(poly, Exp(-Mul(x, x)))

Erf(x) == (IF x >= 0 THEN 1 ELSE -1) * ErfPos(Abs(x))

N(z) == RDiv(SCALE + Erf(Div(z, Sqrt2)), 2)

nPrime(z) == Mul(InvSqrt2Pi, Exp(-RDiv(Mul(z, z), 2)))

\* validateInputs: TRUE iff no exception is thrown
validateInputs(S, K, r, T, sigma) ==
    /\ ~LeZero(S)
    /\ ~LeZero(K)
    /\ ~LtZero(T)
    /\ ~LtZero(sigma)
    /\ IsFinite(S) /\ IsFinite(K) /\ IsFinite(r) /\ IsFinite(T) /\ IsFinite(sigma)

d1(S, K, r, T, sigma) ==
    Div(Log(Div(S, K)) + Mul(r + RDiv(Mul(sigma, sigma), 2), T), Mul(sigma, Sqrt(T)))

d2(S, K, r, T, sigma) == d1(S, K, r, T, sigma) - Mul(sigma, Sqrt(T))

callPrice(S, K, r, T, sigma) ==
    IF T <= 0 \/ sigma <= 0 THEN Max(0, S - K)
    ELSE Mul(S, N(d1(S, K, r, T, sigma)))
         - Mul(Mul(K, Exp(-Mul(r, T))), N(d2(S, K, r, T, sigma)))

putPrice(S, K, r, T, sigma) ==
    IF T <= 0 \/ sigma <= 0 THEN Max(0, K - S)
    ELSE Mul(Mul(K, Exp(-Mul(r, T))), N(-d2(S, K, r, T, sigma)))
         - Mul(S, N(-d1(S, K, r, T, sigma)))

callDelta(S, K, r, T, sigma) ==
    IF T <= 0 \/ sigma <= 0 THEN (IF S > K THEN SCALE ELSE 0)
    ELSE N(d1(S, K, r, T, sigma))

putDelta(S, K, r, T, sigma) ==
    IF T <= 0 \/ sigma <= 0 THEN (IF S < K THEN -SCALE ELSE 0)
    ELSE N(d1(S, K, r, T, sigma)) - SCALE

bsGamma(S, K, r, T, sigma) ==
    IF T <= 0 \/ sigma <= 0 THEN 0
    ELSE Div(nPrime(d1(S, K, r, T, sigma)), Mul(Mul(S, sigma), Sqrt(T)))

bsVega(S, K, r, T, sigma) ==
    IF T <= 0 \/ sigma <= 0 THEN 0
    ELSE Mul(Mul(S, nPrime(d1(S, K, r, T, sigma))), Sqrt(T))

callTheta(S, K, r, T, sigma) ==
    IF T <= 0 \/ sigma <= 0 THEN 0
    ELSE LET term1 == -Div(Mul(Mul(S, nPrime(d1(S, K, r, T, sigma))), sigma), 2 * Sqrt(T))
             term2 == Mul(Mul(Mul(r, K), Exp(-Mul(r, T))), N(d2(S, K, r, T, sigma)))
         IN RDiv(term1 - term2, 365)

putTheta(S, K, r, T, sigma) ==
    IF T <= 0 \/ sigma <= 0 THEN 0
    ELSE LET term1 == -Div(Mul(Mul(S, nPrime(d1(S, K, r, T, sigma))), sigma), 2 * Sqrt(T))
             term2 == Mul(Mul(Mul(r, K), Exp(-Mul(r, T))), N(-d2(S, K, r, T, sigma)))
         IN RDiv(term1 + term2, 365)

\* what impliedVolatility hands back: the volatility returned or the
\* exception, and the volatility after each update
Search(ok, v, iterates) == [ok |-> ok, v |-> v, iterates |-> iterates]

\* if (sigma <= 0.0) sigma = 0.01; if (sigma > 10.0) sigma = 10.0
clamped(sigma) ==
    IF sigma <= 0 THEN 10 ELSE IF sigma > 10 * SCALE THEN 10 * SCALE ELSE sigma

\* the Newton-Raphson loop from iteration i on; a vega below 1e-10 is a vega
\* of 0 or less on this grid
RECURSIVE newtonRaphson(_, _, _, _)
newtonStep(cx, i, sigma, iterates, price_diff, vega_val) ==
    IF Abs(price_diff) < cx.tolerance THEN Search(TRUE, sigma, iterates)
    ELSE IF vega_val <= 0 THEN Search(FALSE, 0, iterates)
    ELSE newtonRaphson(cx, i + 1, clamped(sigma - Div(price_diff, vega_val)),
                       Append(iterates, clamped(sigma - Div(price_diff, vega_val))))

newtonRaphson(cx, i, sigma, iterates) ==
    IF i >= cx.max_iterations THEN Search(FALSE, 0, iterates)
    ELSE IF ~validateInputs(cx.S, cx.K, cx.r, cx.T, sigma) THEN Search(FALSE, 0, iterates)
    ELSE newtonStep(cx, i, sigma, iterates,
                    (IF cx.is_call THEN callPrice(cx.S, cx.K, cx.r, cx.T, sigma)
                     ELSE putPrice(cx.S, cx.K, cx.r, cx.T, sigma)) - cx.market_price,
                    bsVega(cx.S, cx.K, cx.r, cx.T, sigma))

impliedVolatility(market_price, S, K, r, T, is_call, initial_guess, tolerance, max_iterations) ==
    IF ~validateInputs(S, K, r, T, initial_guess) THEN Search(FALSE, 0, <<>>)
    ELSE IF LtZero(market_price) THEN Search(FALSE, 0, <<>>)
    ELSE IF LeZero(T) THEN Search(FALSE, 0, <<>>)
    ELSE IF market_price < (IF is_call THEN Max(0, S - K) ELSE Max(0, K - S))
    THEN Search(FALSE, 0, <<>>)
    ELSE newtonRaphson([market_price |-> market_price, S |-> S, K |-> K, r |-> r,
                        T |-> T, is_call |-> is_call, tolerance |-> tolerance,
                        max_iterations |-> max_iterations],
                       0, initial_guess, <<>>)


\* ------------------------------------------------------------------------
\* MarketData and EuropeanOption (MarketData.h, Instrument.cpp)
\* ------------------------------------------------------------------------
\* a computed double, or the exception thrown instead of it
Ok(v) == [ok |-> TRUE, v |-> v]
Throw == [ok |-> FALSE, v |-> 0]

MarketData(id, spot, rate, vol) ==
    [asset_id |-> id, spot_price |-> spot, risk_free_rate |-> rate,
     volatility |-> vol, dividend_yield |-> 0]

\* the constructor with five arguments
MarketDataDiv(id, spot, rate, vol, div) ==
    [asset_id |-> id, spot_price |-> spot, risk_free_rate |-> rate,
     volatility |-> vol, dividend_yield |-> div]

EuropeanOption(type, strike, time_to_expiry, asset_id) ==
    [class |-> "EuropeanOption", option_type_ |-> type, strike_price_ |-> strike,
     time_to_expiry_years_ |-> time_to_expiry,
     underlying_asset_id_ |-> asset_id, pricing_model_ |-> "BlackScholes",
     binomial_steps_ |-> 100, jump_intensity_ |-> 0, jump_mean_ |-> 0,
     jump_volatility_ |-> 0]

AmericanOption(type, strike, time_to_expiry, asset_id, binomial_steps) ==
    [class |-> "AmericanOption", option_type_ |-> type, strike_price_ |-> strike,
     time_to_expiry_years_ |-> time_to_expiry,
     underlying_asset_id_ |-> asset_id, binomial_steps_ |-> binomial_steps]

getAssetId(inst) == inst.underlying_asset_id_

\* EuropeanOption::validateMarketData: TRUE iff nothing is thrown
optionValidateMarketData(md) ==
    /\ ~LeZero(md.spot_price)
    /\ ~LtZero(md.volatility)
    /\ IsFinite(md.spot_price)
    /\ IsFinite(md.risk_free_rate)
    /\ IsFinite(md.volatility)

\* the checks made on a computed value before it is returned
finiteResult(result) == IF ~IsFinite(result) THEN Throw ELSE Ok(result)
nonNegativeResult_unsigned(result) == IF ~IsFinite(result) THEN Throw ELSE Ok(result)

nonNegativeResult(result) == IF ~IsFinite(result) \/ result < 0 THEN Throw ELSE Ok(result)

\* the pricing inputs both the option and the kernel accept
validInputs(inst, md) ==
    /\ optionValidateMarketData(md)
    /\ validateInputs(md.spot_price, inst.strike_price_, md.risk_free_rate,
                      inst.time_to_expiry_years_, md.volatility)

priceBlackScholes(inst, md) ==
    IF inst.option_type_ = "Call"
    THEN callPrice(md.spot_price, inst.strike_price_, md.risk_free_rate,
                   inst.time_to_expiry_years_, md.volatility)
    ELSE putPrice(md.spot_price, inst.strike_price_, md.risk_free_rate,
                  inst.time_to_expiry_years_, md.volatility)

price(inst, md) ==
    IF ~validInputs(inst, md) THEN Throw
    ELSE nonNegativeResult(priceBlackScholes(inst, md))

delta(inst, md) ==
    IF ~validInputs(inst, md) THEN Throw
    ELSE finiteResult(IF inst.option_type_ = "Call"
                      THEN callDelta(md.spot_price, inst.strike_price_, md.risk_free_rate,
                                     inst.time_to_expiry_years_, md.volatility)
                      ELSE putDelta(md.spot_price, inst.strike_price_, md.risk_free_rate,
                                    inst.time_to_expiry_years_, md.volatility))

gamma(inst, md) ==
    IF ~validInputs(inst, md) THEN Throw
    ELSE nonNegativeResult(bsGamma(md.spot_price, inst.strike_price_, md.risk_free_rate,
                                   inst.time_to_expiry_years_, md.volatility))

vega(inst, md) ==
    IF ~validInputs(inst, md) THEN Throw
    ELSE nonNegativeResult(bsVega(md.spot_price, inst.strike_price_, md.risk_free_rate,
                                  inst.time_to_expiry_years_, md.volatility))

theta(inst, md) ==
    IF ~validInputs(inst, md) THEN Throw
    ELSE finiteResult(IF inst.option_type_ = "Call"
                      THEN callTheta(md.spot_price, inst.strike_price_, md.risk_free_rate,
                                     inst.time_to_expiry_years_, md.volatility)
                      ELSE putTheta(md.spot_price, inst.strike_price_, md.risk_free_rate,
                                    inst.time_to_expiry_years_, md.volatility))


\* ------------------------------------------------------------------------
\* Binomial tree kernel (libraries/qe_risk_engine/includes/BinomialTree.h;
\* the definitions of europeanOptionPrice and americanOptionPrice are not
\* among the sources, the tree is the one of the design document, section
\* 4.3, in the arithmetic of utils/BinomialTree.cpp)
\* ------------------------------------------------------------------------
RECURSIVE Pow(_, _)
Pow(x, k) == IF k = 0 THEN SCALE ELSE Mul(Pow(x, k - 1), x)

payoff(type, S_node, K) ==
    IF type = "Call" THEN Max(S_node - K, 0) ELSE Max(K - S_node, 0)

\* the parameters of the Cox-Ross-Rubinstein tree
treeParameters(r, T, sigma, steps) ==
    LET dt == RDiv(T, steps)
        u == Exp(Mul(sigma, Sqrt(dt)))
        d == Div(SCALE, u)
    IN [u |-> u, d |-> d, growth |-> Exp(Mul(r, dt)), discount |-> Exp(-Mul(r, dt))]

\* p = (e^{r dt} - d) / (u - d); a tree whose u and d coincide has no p
probability(tree) ==
    IF tree.u = tree.d THEN NaN ELSE Div(tree.growth - tree.d, tree.u - tree.d)

nodeSpot(S, tree, step, i) == Mul(Mul(S, Pow(tree.u, step - i)), Pow(tree.d, i))

\* V_node = hold, or max(hold, intrinsic_at_node) for an American option
optionValue_continued(continuation, exercise) == continuation

\* option_values[i] = std::max(continuation, exercise)
optionValue(continuation, exercise) == Max(continuation, exercise)

nodeValue(type, S, K, tree, p, is_american, step, i, hold) ==
    IF is_american THEN optionValue(hold, payoff(type, nodeSpot(S, tree, step, i), K))
    ELSE hold

\* one step of the backward induction: the layer of step from the layer behind it
layer(type, S, K, tree, p, is_american, step, values) ==
    [j \in 1..(step + 1) |->
        nodeValue(type, S, K, tree, p, is_american, step, j - 1,
                  Mul(tree.discount, Mul(p, values[j]) + Mul(SCALE - p, values[j + 1])))]

RECURSIVE induction(_, _, _, _, _, _, _, _)
induction(type, S, K, tree, p, is_american, step, values) ==
    IF step < 0 THEN values[1]
    ELSE induction(type, S, K, tree, p, is_american, step - 1,
                   layer(type, S, K, tree, p, is_american, step, values))

\* the tree once p is known: a numerical error when p is not in [0, 1]
treeValue(type, S, K, tree, p, steps, is_american) ==
    IF IsNan(p) \/ p < 0 \/ p > SCALE THEN Throw
    ELSE Ok(induction(type, S, K, tree, p, is_american, steps - 1,
                      [j \in 1..(steps + 1) |-> payoff(type, nodeSpot(S, tree, steps, j - 1), K)]))

\* the price of the tree, or the exception of the kernel; T = 0 and
\* sigma = 0 give the intrinsic value
treePrice(S, K, r, T, sigma, type, steps, is_american) ==
    IF ~validateInputs(S, K, r, T, sigma) THEN Throw
    ELSE IF T <= 0 \/ sigma <= 0 THEN Ok(payoff(type, S, K))
    ELSE treeValue(type, S, K, treeParameters(r, T, sigma, steps),
                   probability(treeParameters(r, T, sigma, steps)), steps, is_american)

europeanOptionPrice(S, K, r, T, sigma, type, steps) ==
    treePrice(S, K, r, T, sigma, type, steps, FALSE)

americanOptionPrice(S, K, r, T, sigma, type, steps) ==
    treePrice(S, K, r, T, sigma, type, steps, TRUE)

\* ------------------------------------------------------------------------
\* The American tree of utils/BinomialTree.cpp: americanCallPrice and
\* americanPutPrice build the tree of their arguments as they are
\* ------------------------------------------------------------------------
\* the values at maturity, asset price by asset price
maturityValues(type, S, K, tree, steps) ==
    [j \in 1..(steps + 1) |-> payoff(type, nodeSpot(S, tree, steps, j - 1), K)]

\* the backward induction over the tree of steps steps
backwardInduction(type, S, K, tree, steps) ==
    induction(type, S, K, tree, probability(tree), TRUE, steps - 1,
              maturityValues(type, S, K, tree, steps))

\* if (steps <= 0) steps = 100
stepsUsed(steps) == IF steps <= 0 THEN 100 ELSE steps

\* without the edge case of T: dt = 0, u = d = 1, p = 0/0
americanPrice_unexpired(type, S, K, r, T, sigma, steps) ==
    IF LeZero(sigma) THEN payoff(type, S, K)
    ELSE IF LeZero(T) THEN NaN
    ELSE backwardInduction(type, S, K, treeParameters(r, T, sigma, stepsUsed(steps)),
                           stepsUsed(steps))

americanPrice(type, S, K, r, T, sigma, steps) ==
    IF LeZero(T) THEN payoff(type, S, K)
    ELSE IF LeZero(sigma) THEN payoff(type, S, K)
    ELSE backwardInduction(type, S, K, treeParameters(r, T, sigma, stepsUsed(steps)),
                           stepsUsed(steps))

americanCallPrice(S, K, r, T, sigma, steps) ==
    americanPrice("Call", S, K, r, T, sigma, steps)

americanPutPrice(S, K, r, T, sigma, steps) ==
    americanPrice("Put", S, K, r, T, sigma, steps)

\* ------------------------------------------------------------------------
\* Merton jump-diffusion kernel (utils/JumpDiffusion.cpp)
\* ------------------------------------------------------------------------
max_jumps == 50

RECURSIVE LogFactorial(_)
LogFactorial(n) == IF n < 2 THEN 0 ELSE LogFactorial(n - 1) + Log(n * SCALE)

\* log_prob of poissonProbability: n log(lambda_t) - lambda_t - log(n!)
logProbability(n, lambda_t) == n * Log(lambda_t) - lambda_t - LogFactorial(n)

\* poissonProbability, given its log_prob
probabilityOf(n, lambda_t, log_prob) ==
    IF lambda_t = 0 THEN (IF n = 0 THEN SCALE ELSE 0) ELSE Exp(log_prob)

poissonProbability(n, lambda_t) ==
    probabilityOf(n, lambda_t, IF lambda_t = 0 THEN 0 ELSE logProbability(n, lambda_t))

\* prob < 1e-10 and prob < 1e-8, read off log_prob: this grid has no
\* number between 0 and 0.001
Log1em10 == -23026
Log1em8 == -18421

probabilityBelow(n, lambda_t, log_prob, log_bound) ==
    IF lambda_t = 0 THEN n # 0 ELSE log_prob < log_bound

\* the Black-Scholes price of the term of n jumps
mertonBlackScholes(cx, n) ==
    LET sigma_n == Sqrt(Mul(cx.sigma, cx.sigma)
                        + Div(n * Mul(cx.jump_vol, cx.jump_vol), cx.T))
        r_n == cx.r - Mul(cx.lambda, cx.k)
               + Div(n * (cx.jump_mean + RDiv(Mul(cx.jump_vol, cx.jump_vol), 2)), cx.T)
    IN IF cx.type = "Call" THEN callPrice(cx.S, cx.K, r_n, cx.T, sigma_n)
       ELSE putPrice(cx.S, cx.K, r_n, cx.T, sigma_n)

\* prob * bs_price; a weight that is 0 on this grid gives 0 whatever the price
weightedPrice(cx, n, prob) ==
    IF prob = 0 THEN 0 ELSE Mul(prob, mertonBlackScholes(cx, n))

\* what the loop has accumulated: the value, the weight and the number of
\* terms added
Series(option_value, sum_prob, terms) ==
    [option_value |-> option_value, sum_prob |-> sum_prob, terms |-> terms]

\* the loop over the number of jumps: the break before the term is added,
\* the term, the break after it; a sum above 0.9999 is 1 or more on this grid
RECURSIVE mertonFrom(_, _, _, _)
mertonTerm_late(cx, n, option_value, sum_prob, log_prob) ==
    IF sum_prob + probabilityOf(n, Mul(cx.lambda, cx.T), log_prob) >= SCALE
       /\ probabilityBelow(n, Mul(cx.lambda, cx.T), log_prob, Log1em8)
    THEN Series(option_value
                + weightedPrice(cx, n, probabilityOf(n, Mul(cx.lambda, cx.T), log_prob)),
                sum_prob + probabilityOf(n, Mul(cx.lambda, cx.T), log_prob), n + 1)
    ELSE mertonFrom(cx, n + 1,
                    option_value
                    + weightedPrice(cx, n, probabilityOf(n, Mul(cx.lambda, cx.T), log_prob)),
                    sum_prob + probabilityOf(n, Mul(cx.lambda, cx.T), log_prob))

mertonTerm(cx, n, option_value, sum_prob, log_prob) ==
    IF probabilityBelow(n, Mul(cx.lambda, cx.T), log_prob, Log1em10)
    THEN Series(option_value, sum_prob, n)
    ELSE IF sum_prob + probabilityOf(n, Mul(cx.lambda, cx.T), log_prob) >= SCALE
            /\ probabilityBelow(n, Mul(cx.lambda, cx.T), log_prob, Log1em8)
    THEN Series(option_value
                + weightedPrice(cx, n, probabilityOf(n, Mul(cx.lambda, cx.T), log_prob)),
                sum_prob + probabilityOf(n, Mul(cx.lambda, cx.T), log_prob), n + 1)
    ELSE mertonFrom(cx, n + 1,
                    option_value
                    + weightedPrice(cx, n, probabilityOf(n, Mul(cx.lambda, cx.T), log_prob)),
                    sum_prob + probabilityOf(n, Mul(cx.lambda, cx.T), log_prob))

mertonFrom_unbounded(cx, n, option_value, sum_prob) ==
    mertonTerm(cx, n, option_value, sum_prob,
               IF Mul(cx.lambda, cx.T) = 0 THEN 0
               ELSE logProbability(n, Mul(cx.lambda, cx.T)))

mertonFrom(cx, n, option_value, sum_prob) ==
    IF n > cx.max_jumps THEN Series(option_value, sum_prob, n)
    ELSE mertonTerm(cx, n, option_value, sum_prob,
                    IF Mul(cx.lambda, cx.T) = 0 THEN 0
                    ELSE logProbability(n, Mul(cx.lambda, cx.T)))

\* the series of one call, from n = 0
mertonSeries(S, K, r, T, sigma, type, lambda, jump_mean, jump_vol, jumps) ==
    mertonFrom([S |-> S, K |-> K, r |-> r, T |-> T, sigma |-> sigma,
                type |-> type, lambda |-> lambda, jump_mean |-> jump_mean,
                jump_vol |-> jump_vol, max_jumps |-> jumps,
                k |-> Exp(jump_mean + RDiv(Mul(jump_vol, jump_vol), 2)) - SCALE],
               0, 0, 0)

\* mertonCallPrice and mertonPutPrice: the price, or the exception thrown; a
\* NaN among the jump parameters passes the tests and makes prob, r_n or
\* sigma_n NaN, which ends in the exception of the last test or of callPrice
mertonPrice(S, K, r, T, sigma, type, lambda, jump_mean, jump_vol, jumps) ==
    IF LeZero(S) \/ LeZero(K) \/ LtZero(T) \/ LtZero(sigma) \/ LtZero(jump_vol)
       \/ LtZero(lambda)
    THEN Throw
    ELSE IF T = 0 THEN Ok(payoff(type, S, K))
    ELSE IF IsNan(lambda) \/ IsNan(jump_mean) \/ IsNan(jump_vol) THEN Throw
    ELSE finiteResult(
             mertonSeries(S, K, r, T, sigma, type, lambda, jump_mean, jump_vol,
                          jumps).option_value)

mertonCallPrice(S, K, r, T, sigma, lambda, jump_mean, jump_vol, jumps) ==
    mertonPrice(S, K, r, T, sigma, "Call", lambda, jump_mean, jump_vol, jumps)

mertonPutPrice(S, K, r, T, sigma, lambda, jump_mean, jump_vol, jumps) ==
    mertonPrice(S, K, r, T, sigma, "Put", lambda, jump_mean, jump_vol, jumps)

\* mertonOptionPrice with max_jumps left to its default
mertonOptionPrice(S, K, r, T, sigma, type, lambda, jump_mean, jump_vol) ==
    mertonPrice(S, K, r, T, sigma, type, lambda, jump_mean, jump_vol, max_jumps)

\* ------------------------------------------------------------------------
\* EuropeanOption under its three models and AmericanOption (Instrument.cpp)
\* ------------------------------------------------------------------------
\* AmericanOption::validateMarketData: TRUE iff nothing is thrown
americanValidateMarketData(md) ==
    /\ ~LeZero(md.spot_price)
    /\ ~LtZero(md.volatility)

\* a value a kernel or a difference of prices gave, after the check made on
\* it; an exception passes through
finiteChecked(computed) == IF ~computed.ok THEN Throw ELSE finiteResult(computed.v)
nonNegativeChecked(computed) ==
    IF ~computed.ok THEN Throw ELSE nonNegativeResult(computed.v)

priceBinomial(inst, md) ==
    europeanOptionPrice(md.spot_price, inst.strike_price_, md.risk_free_rate,
                        inst.time_to_expiry_years_, md.volatility, inst.option_type_,
                        inst.binomial_steps_)

priceJumpDiffusion(inst, md) ==
    mertonOptionPrice(md.spot_price, inst.strike_price_, md.risk_free_rate,
                      inst.time_to_expiry_years_, md.volatility, inst.option_type_,
                      inst.jump_intensity_, inst.jump_mean_, inst.jump_volatility_)

\* what the pricing kernel of the option hands to price: a number, or the
\* exception the kernel threw
kernelPrice(inst, md) ==
    IF inst.class = "AmericanOption"
    THEN americanOptionPrice(md.spot_price, inst.strike_price_, md.risk_free_rate,
                             inst.time_to_expiry_years_, md.volatility,
                             inst.option_type_, inst.binomial_steps_)
    ELSE IF inst.pricing_model_ = "Binomial" THEN priceBinomial(inst, md)
    ELSE IF inst.pricing_model_ = "MertonJumpDiffusion" THEN priceJumpDiffusion(inst, md)
    ELSE IF ~validateInputs(md.spot_price, inst.strike_price_, md.risk_free_rate,
                            inst.time_to_expiry_years_, md.volatility)
    THEN Throw
    ELSE Ok(priceBlackScholes(inst, md))

\* validateMarketData of the class of the option
marketDataAccepted(inst, md) ==
    IF inst.class = "AmericanOption" THEN americanValidateMarketData(md)
    ELSE optionValidateMarketData(md)

\* the checks of price around the call of the kernel
checkedPrice(inst, md, kernel) ==
    IF ~marketDataAccepted(inst, md) THEN Throw
    ELSE nonNegativeChecked(kernel)

\* EuropeanOption::price and AmericanOption::price
priceOf(inst, md) == checkedPrice(inst, md, kernelPrice(inst, md))

\* (up - down) / (2.0 * bump)
centralDifference(up, down, bump) ==
    IF ~up.ok \/ ~down.ok THEN Throw
    ELSE IF bump = 0 THEN Ok(NaN)
    ELSE Ok(Div(up.v - down.v, 2 * bump))

spotBumped(md, spot_price) == [md EXCEPT !.spot_price = spot_price]
volatilityBumped(md, volatility) == [md EXCEPT !.volatility = volatility]

\* EuropeanOption::deltaNumerical and the difference of AmericanOption::delta
deltaNumerical(inst, md, bump) ==
    centralDifference(priceOf(inst, spotBumped(md, md.spot_price + bump)),
                      priceOf(inst, spotBumped(md, md.spot_price - bump)), bump)

\* EuropeanOption::delta and AmericanOption::delta
deltaOf(inst, md) ==
    IF ~marketDataAccepted(inst, md) THEN Throw
    ELSE IF inst.class = "EuropeanOption" /\ inst.pricing_model_ = "BlackScholes"
    THEN delta(inst, md)
    ELSE finiteChecked(deltaNumerical(inst, md, Mul(md.spot_price, 10)))

\* the difference of deltas of both gamma methods
gammaNumerical(inst, md, bump) ==
    centralDifference(deltaOf(inst, spotBumped(md, md.spot_price + bump)),
                      deltaOf(inst, spotBumped(md, md.spot_price - bump)), bump)

\* the difference of prices of both vega methods
vegaNumerical(inst, md, bump) ==
    centralDifference(priceOf(inst, volatilityBumped(md, md.volatility + bump)),
                      priceOf(inst, volatilityBumped(md, Max(0, md.volatility - bump))),
                      bump)

\* EuropeanOption::gamma and AmericanOption::gamma
gammaOf(inst, md) ==
    IF ~marketDataAccepted(inst, md) THEN Throw
    ELSE IF inst.class = "AmericanOption"
    THEN finiteChecked(gammaNumerical(inst, md, Mul(md.spot_price, 10)))
    ELSE IF inst.pricing_model_ = "BlackScholes" THEN gamma(inst, md)
    ELSE nonNegativeChecked(gammaNumerical(inst, md, Mul(md.spot_price, 10)))

\* EuropeanOption::vega and AmericanOption::vega
vegaOf(inst, md) ==
    IF ~marketDataAccepted(inst, md) THEN Throw
    ELSE IF inst.class = "AmericanOption"
    THEN finiteChecked(vegaNumerical(inst, md, 10))
    ELSE IF inst.pricing_model_ = "BlackScholes" THEN vega(inst, md)
    ELSE nonNegativeChecked(vegaNumerical(inst, md, 10))


\* ------------------------------------------------------------------------
\* RiskEngine (RiskEngine.h, RiskEngine.cpp)
\* ------------------------------------------------------------------------
VARIABLES instruments,          \* Portfolio::instruments, pairs (instrument, quantity)
          capacity,             \* instruments.capacity()
          positions,            \* the sequence of positions the calls made so far describe
          market_data_map,      \* the caller's std::map<std::string, MarketData>
          market_data_map_,     \* MarketDataManager::market_data_map_
          market_data,          \* the MarketData object the caller holds
          option,               \* the option object the caller holds
          var_simulations_, time_horizon_days_, random_seed_, use_fixed_seed_,
          last,                 \* outcome of the latest operation
          prev                  \* outcome of the calculatePortfolioRisk call before it

vars == <<instruments, capacity, positions, market_data_map, market_data_map_,
          market_data, option, var_simulations_, time_horizon_days_, random_seed_, use_fixed_seed_, last, prev>>

\* what the operations of one class leave alone in the objects of the others
portfolioVars == <<instruments, capacity, positions>>
storeVars == <<market_data_map_, market_data>>
engineVars == <<var_simulations_, time_horizon_days_, random_seed_, use_fixed_seed_>>

\* reset() that leaves one field as it was
ZeroResult_stale ==
    [total_pv |-> 0, total_delta |-> 0, total_gamma |-> 0, total_vega |-> 0,
     total_theta |-> 0, value_at_risk_95 |-> 0, value_at_risk_99 |-> 0,
     expected_shortfall_95 |-> 0, expected_shortfall_99 |-> 1]

\* PortfolioRiskResult after reset()
ZeroResult ==
    [total_pv |-> 0, total_delta |-> 0, total_gamma |-> 0, total_vega |-> 0,
     total_theta |-> 0, value_at_risk_95 |-> 0, value_at_risk_99 |-> 0,
     expected_shortfall_95 |-> 0, expected_shortfall_99 |-> 0]

\* RiskMetrics, default-initialised
ZeroMetrics == [var_95 |-> 0, var_99 |-> 0, es_95 |-> 0, es_99 |-> 0]

isValid(result) ==
    /\ IsFinite(result.total_pv) /\ IsFinite(result.total_delta)
    /\ IsFinite(result.total_gamma) /\ IsFinite(result.total_vega)
    /\ IsFinite(result.total_theta) /\ IsFinite(result.value_at_risk_95)
    /\ IsFinite(result.value_at_risk_99) /\ IsFinite(result.expected_shortfall_95)
    /\ IsFinite(result.expected_shortfall_99)

\* RiskEngine::validateParameters: TRUE iff nothing is thrown
validateParameters(sims, days) ==
    /\ ~(sims <= 0 \/ sims > 1000000)
    /\ ~(LeZero(days) \/ (IsFinite(days) /\ days > 252 * SCALE) \/ days = PosInf)

\* the entry checks without the test of the spot price sign
entryError_nospot(md) ==
    IF LtZero(md.volatility) THEN "Volatility cannot be negative"
    ELSE IF IsNan(md.spot_price) \/ IsInf(md.spot_price) THEN "Invalid spot price"
    ELSE IF IsNan(md.risk_free_rate) \/ IsInf(md.risk_free_rate) THEN "Invalid risk-free rate"
    ELSE IF IsNan(md.volatility) \/ IsInf(md.volatility) THEN "Invalid volatility"
    ELSE ""

\* the checks validateMarketData makes on one entry, in the order of the code
entryError(md) ==
    IF LeZero(md.spot_price) THEN "Spot price must be positive"
    ELSE IF LtZero(md.volatility) THEN "Volatility cannot be negative"
    ELSE IF IsNan(md.spot_price) \/ IsInf(md.spot_price) THEN "Invalid spot price"
    ELSE IF IsNan(md.risk_free_rate) \/ IsInf(md.risk_free_rate) THEN "Invalid risk-free rate"
    ELSE IF IsNan(md.volatility) \/ IsInf(md.volatility) THEN "Invalid volatility"
    ELSE ""

positionError(pos, map) ==
    IF getAssetId(pos[1]) = "" THEN "Instrument has empty asset ID"
    ELSE IF getAssetId(pos[1]) \notin DOMAIN map THEN "Missing market data"
    ELSE entryError(map[getAssetId(pos[1])])

\* RiskEngine::validateMarketData: the position the loop throws at, 0 if none
RECURSIVE validateMarketDataFrom(_, _, _)
validateMarketDataFrom(portfolio, map, i) ==
    IF i > Len(portfolio) THEN 0
    ELSE IF positionError(portfolio[i], map) # "" THEN i
    ELSE validateMarketDataFrom(portfolio, map, i + 1)

validateMarketData(portfolio, map) == validateMarketDataFrom(portfolio, map, 1)

metricOf(inst, md, metric_name) ==
    CASE metric_name = "price" -> price(inst, md)
      [] metric_name = "delta" -> delta(inst, md)
      [] metric_name = "gamma" -> gamma(inst, md)
      [] metric_name = "vega" -> vega(inst, md)
      [] metric_name = "theta" -> theta(inst, md)

\* the metric returned without the multiplication by the quantity
weighted_unweighted(metric_value, quantity) ==
    IF ~metric_value.ok THEN Throw
    ELSE IF ~IsFinite(metric_value.v) THEN Throw
    ELSE Ok(metric_value.v)

\* the checks and the product of calculateSingleInstrumentMetric
weighted(metric_value, quantity) ==
    IF ~metric_value.ok THEN Throw
    ELSE IF ~IsFinite(metric_value.v) THEN Throw
    ELSE finiteResult(metric_value.v * quantity)

calculateSingleInstrumentMetric(inst, quantity, md, metric_name) ==
    weighted(metricOf(inst, md, metric_name), quantity)

MetricNames == <<"price", "delta", "gamma", "vega", "theta">>

\* result.total_<metric> += value
addTotal(result, metric_name, value) ==
    CASE metric_name = "price" -> [result EXCEPT !.total_pv = @ + value]
      [] metric_name = "delta" -> [result EXCEPT !.total_delta = @ + value]
      [] metric_name = "gamma" -> [result EXCEPT !.total_gamma = @ + value]
      [] metric_name = "vega" -> [result EXCEPT !.total_vega = @ + value]
      [] metric_name = "theta" -> [result EXCEPT !.total_theta = @ + value]

\* the aggregation loop of calculatePortfolioRisk, from metric k of position i
\* on; priced counts the calls made to instrument methods
RECURSIVE aggregateFrom(_, _, _, _, _, _)
aggregated(portfolio, map, i, k, result, priced, contribution) ==
    IF ~contribution.ok
    THEN [ok |-> FALSE, result |-> result, priced |-> priced + 1, pos |-> i]
    ELSE aggregateFrom(portfolio, map, i, k + 1,
                       addTotal(result, MetricNames[k], contribution.v), priced + 1)

aggregateFrom(portfolio, map, i, k, result, priced) ==
    IF i > Len(portfolio) THEN [ok |-> TRUE, result |-> result, priced |-> priced, pos |-> 0]
    ELSE IF k > Len(MetricNames) THEN aggregateFrom(portfolio, map, i + 1, 1, result, priced)
    ELSE aggregated(portfolio, map, i, k, result, priced,
                    calculateSingleInstrumentMetric(portfolio[i][1], portfolio[i][2],
                                                    map[getAssetId(portfolio[i][1])],
                                                    MetricNames[k]))


\* std::mt19937 with std::normal_distribution<double>(0, 1): a stream that is
\* a function of the seed and of the number of values already drawn
Shocks == <<-2000, -1000, 0, 1000, 2000>>

\* the generator seeded from the random device whatever the mode
SeedGenerator_device(use_fixed, seed, rd) ==
    [seed |-> rd, count |-> 0]

SeedGenerator(use_fixed, seed, rd) ==
    [seed |-> IF use_fixed THEN seed ELSE rd, count |-> 0]

NormalDraw(generator) ==
    Shocks[(((generator.seed % 5) + 3 * generator.count
             + ((generator.count * generator.count) \div 2)
             + (generator.seed % 7) * generator.count) % 5) + 1]

\* a generator that hands out its first value for ever
Advance_stuck(generator) == generator

Advance(generator) == [generator EXCEPT !.count = @ + 1]

\* the spot moved by the drift alone
simulatedSpot_unshocked(entry, dt, sqrt_dt, random_shock) ==
    LET drift == Mul(entry.risk_free_rate
                     - RDiv(Mul(entry.volatility, entry.volatility), 2), dt)
    IN Mul(entry.spot_price, Exp(drift))

simulatedSpot(entry, dt, sqrt_dt, random_shock) ==
    LET drift == Mul(entry.risk_free_rate
                     - RDiv(Mul(entry.volatility, entry.volatility), 2), dt)
        diffusion == Mul(Mul(entry.volatility, sqrt_dt), random_shock)
    IN Mul(entry.spot_price, Exp(drift + diffusion))

\* initial portfolio value loop of calculateRiskMetrics, from position i on
RECURSIVE initialValueFrom(_, _, _, _, _)
\* the initial value summed over the prices, the quantities left out
initialValued_unit(portfolio, map, i, value, priced, instrument_price) ==
    IF ~instrument_price.ok \/ ~IsFinite(instrument_price.v)
    THEN [ok |-> FALSE, v |-> value, priced |-> priced + 1]
    ELSE initialValueFrom(portfolio, map, i + 1, value + instrument_price.v, priced + 1)

initialValued(portfolio, map, i, value, priced, instrument_price) ==
    IF ~instrument_price.ok \/ ~IsFinite(instrument_price.v)
    THEN [ok |-> FALSE, v |-> value, priced |-> priced + 1]
    ELSE initialValueFrom(portfolio, map, i + 1,
                          value + instrument_price.v * portfolio[i][2], priced + 1)

initialValueFrom(portfolio, map, i, value, priced) ==
    IF i > Len(portfolio) THEN [ok |-> TRUE, v |-> value, priced |-> priced]
    ELSE initialValued(portfolio, map, i, value, priced,
                       price(portfolio[i][1], map[getAssetId(portfolio[i][1])]))

\* the Monte-Carlo loops of calculateRiskMetrics, from simulation i (0-based)
\* and position j (1-based) on; st carries the locals of the function
RECURSIVE simulateFrom(_, _, _, _)

\* after simulated_price is computed: its check, and the sum
repriced(cx, i, j, st, simulated_md, simulated_price) ==
    IF ~simulated_price.ok \/ ~IsFinite(simulated_price.v)
    THEN [st EXCEPT !.ok = FALSE, !.priced = @ + 1,
                    !.events = Append(@, [ev |-> "price", sim |-> i, pos |-> j,
                                          n |-> st.generator.count,
                                          x |-> simulated_md.spot_price,
                                          md |-> simulated_md])]
    ELSE simulateFrom(cx, i, j + 1,
             [st EXCEPT !.priced = @ + 1,
                        !.events = Append(@, [ev |-> "price", sim |-> i, pos |-> j,
                                              n |-> st.generator.count,
                                              x |-> simulated_md.spot_price,
                                              md |-> simulated_md]),
                        !.value = @ + simulated_price.v * cx.portfolio[j][2]])

\* the shocked market data built with the four-argument constructor instead
\* of copied
shocked_rebuilt(cx, i, j, st, entry, simulated_spot) ==
    IF ~IsFinite(simulated_spot) \/ simulated_spot <= 0
    THEN [st EXCEPT !.ok = FALSE]
    ELSE repriced(cx, i, j, st,
                  MarketData(entry.asset_id, simulated_spot, entry.risk_free_rate,
                             entry.volatility),
                  price(cx.portfolio[j][1], [entry EXCEPT !.spot_price = simulated_spot]))

\* after simulated_spot is computed: its check, and the repricing on a copy of
\* the market data with the spot replaced
shocked(cx, i, j, st, entry, simulated_spot) ==
    IF ~IsFinite(simulated_spot) \/ simulated_spot <= 0
    THEN [st EXCEPT !.ok = FALSE]
    ELSE repriced(cx, i, j, st, [entry EXCEPT !.spot_price = simulated_spot],
                  price(cx.portfolio[j][1], [entry EXCEPT !.spot_price = simulated_spot]))

\* after random_shock is drawn: the generator has advanced
drawn(cx, i, j, st, entry, random_shock) ==
    shocked(cx, i, j,
            [st EXCEPT !.generator = Advance(@),
                       !.events = Append(@, [ev |-> "draw", sim |-> i, pos |-> j,
                                             n |-> st.generator.count,
                                             x |-> random_shock])],
            entry, simulatedSpot(entry, cx.dt, cx.sqrt_dt, random_shock))

simulateFrom(cx, i, j, st) ==
    IF i >= cx.sims THEN [st EXCEPT !.ok = TRUE]
    ELSE IF j > Len(cx.portfolio)
    THEN IF ~IsFinite(st.value) THEN [st EXCEPT !.ok = FALSE]
         ELSE simulateFrom(cx, i + 1, 1,
                  [st EXCEPT !.pnl = Append(@, st.value - cx.v0), !.value = 0])
    ELSE drawn(cx, i, j, st, cx.map[getAssetId(cx.portfolio[j][1])],
               NormalDraw(st.generator))

\* std::sort, ascending: element i moves to the place given by the number of
\* elements ordered before it
Rank(seq, i) ==
    Cardinality({j \in 1..Len(seq) : seq[j] < seq[i] \/ (seq[j] = seq[i] /\ j < i)}) + 1

\* the distribution left in simulation order
Sort_unsorted(seq) == seq

Sort(seq) ==
    LET rank == [i \in 1..Len(seq) |-> Rank(seq, i)]
    IN [k \in 1..Len(seq) |-> seq[CHOOSE i \in 1..Len(seq) : rank[i] = k]]

\* sum += pnl_distribution[i] for i = 0..k-1, each addition rounded
RECURSIVE SumTo(_, _)
SumTo(seq, k) == IF k = 0 THEN 0 ELSE Round(SumTo(seq, k - 1) + seq[k])

\* static_cast<int>((1.0 - 0.95) * n) and static_cast<int>((1.0 - 0.99) * n):
\* the doubles 1.0 - 0.95 and 1.0 - 0.99 lie just above 0.05 and 0.01, and the
\* truncated products equal these quotients for every n in 1..1000000
\* the product rounded up instead of truncated
index_95_ceiling(n) == (5 * n + 99) \div 100

index_95(n) == (5 * n) \div 100
index_99(n) == n \div 100

\* the tail of calculateRiskMetrics: sort, VaR and ES at both levels;
\* C++ index k is element k + 1 of the sequence
riskMetricsFromPnl(pnl_distribution, sims) ==
    LET sorted == Sort(pnl_distribution)
        i95 == index_95(sims)
        i99 == index_99(sims)
    IN IF pnl_distribution = <<>> THEN [ok |-> FALSE, metrics |-> ZeroMetrics]
       ELSE IF i95 < 0 \/ i95 >= sims \/ i99 < 0 \/ i99 >= sims
       THEN [ok |-> FALSE, metrics |-> ZeroMetrics]
       ELSE [ok |-> TRUE,
             metrics |-> [var_95 |-> -sorted[i95 + 1],
                          var_99 |-> -sorted[i99 + 1],
                          es_95 |-> Round(RDiv(-SumTo(sorted, i95 + 1), i95 + 1)),
                          es_99 |-> Round(RDiv(-SumTo(sorted, i99 + 1), i99 + 1))]]

\* std::abs(initial_portfolio_value) < 1e-10; on this grid 1e-10 lies between
\* 0 and the smallest positive value
ZeroValueThreshold == 1

\* the comparison without std::abs
isZeroValue_signed(initial_portfolio_value) ==
    initial_portfolio_value < ZeroValueThreshold

isZeroValue(initial_portfolio_value) ==
    Abs(initial_portfolio_value) < ZeroValueThreshold

\* the end of calculateRiskMetrics, given the simulated distribution
extracted(sims, initial_portfolio_value, run) ==
    LET out == riskMetricsFromPnl(run.pnl, sims)
    IN [ok |-> run.ok /\ out.ok,
        metrics |-> IF run.ok THEN out.metrics ELSE ZeroMetrics,
        v0 |-> initial_portfolio_value, simulated |-> TRUE, pnl |-> run.pnl,
        events |-> run.events, priced |-> run.priced]

\* calculateRiskMetrics once the initial portfolio value is known
simulated(portfolio, map, sims, dt, generator, init) ==
    IF ~init.ok
    THEN [ok |-> FALSE, metrics |-> ZeroMetrics, v0 |-> init.v, simulated |-> FALSE,
          pnl |-> <<>>, events |-> <<>>, priced |-> init.priced]
    ELSE IF isZeroValue(init.v)
    THEN [ok |-> TRUE, metrics |-> ZeroMetrics, v0 |-> init.v, simulated |-> FALSE,
          pnl |-> <<>>, events |-> <<>>, priced |-> init.priced]
    ELSE extracted(sims, init.v,
             simulateFrom([portfolio |-> portfolio, map |-> map, sims |-> sims,
                           dt |-> dt, sqrt_dt |-> Sqrt(dt), v0 |-> init.v],
                          0, 1,
                          [ok |-> TRUE, generator |-> generator, value |-> 0,
                           pnl |-> <<>>, events |-> <<>>, priced |-> init.priced]))

calculateRiskMetrics(portfolio, map, sims, days, use_fixed, seed, rd, priced0) ==
    simulated(portfolio, map, sims, RDiv(days * SCALE, 252 * SCALE),
              SeedGenerator(use_fixed, seed, rd),
              initialValueFrom(portfolio, map, 1, 0, priced0))


\* the whole of calculatePortfolioRisk: what it returns or raises, and what it
\* did on the way (instrument calls made, draws and repricings in order)
Outcome(status, error, error_pos, result) ==
    [op |-> "calculatePortfolioRisk", status |-> status, error |-> error,
     error_pos |-> error_pos, result |-> result, validated |-> FALSE,
     priced |-> 0, v0 |-> 0, simulated |-> FALSE, pnl |-> <<>>, events |-> <<>>,
     before |-> <<>>]

\* calculatePortfolioRisk once calculateRiskMetrics has returned or thrown
measured(result, risk_metrics) ==
    [Outcome(IF risk_metrics.ok THEN "returned" ELSE "raised",
             IF risk_metrics.ok THEN "" ELSE "Risk metrics calculation failed",
             0,
             IF risk_metrics.ok
             THEN [result EXCEPT !.value_at_risk_95 = risk_metrics.metrics.var_95,
                                 !.value_at_risk_99 = risk_metrics.metrics.var_99,
                                 !.expected_shortfall_95 = risk_metrics.metrics.es_95,
                                 !.expected_shortfall_99 = risk_metrics.metrics.es_99]
             ELSE ZeroResult)
       EXCEPT !.validated = TRUE, !.priced = risk_metrics.priced,
              !.v0 = risk_metrics.v0, !.simulated = risk_metrics.simulated,
              !.pnl = risk_metrics.pnl, !.events = risk_metrics.events]

\* calculatePortfolioRisk once the aggregation loop has ended
aggregatedRisk(portfolio, map, sims, days, use_fixed, seed, rd, agg) ==
    IF ~agg.ok
    THEN [Outcome("raised", "Failed to calculate metric", agg.pos, ZeroResult)
            EXCEPT !.validated = TRUE, !.priced = agg.priced]
    ELSE IF ~isValid(agg.result)
    THEN [Outcome("raised", "Portfolio risk calculation produced invalid results",
                  0, ZeroResult)
            EXCEPT !.validated = TRUE, !.priced = agg.priced]
    ELSE measured(agg.result,
                  calculateRiskMetrics(portfolio, map, sims, days, use_fixed, seed, rd,
                                       agg.priced))

portfolioRisk(portfolio, map, sims, days, use_fixed, seed, rd) ==
    IF ~validateParameters(sims, days)
    THEN Outcome("raised", "Invalid parameter", 0, ZeroResult)
    ELSE IF portfolio = <<>>
    THEN Outcome("returned", "", 0, ZeroResult)
    ELSE IF validateMarketData(portfolio, map) # 0
    THEN [Outcome("raised", "Invalid market data", validateMarketData(portfolio, map),
                  ZeroResult)
            EXCEPT !.validated = TRUE]
    ELSE aggregatedRisk(portfolio, map, sims, days, use_fixed, seed, rd,
                        aggregateFrom(portfolio, map, 1, 1, ZeroResult, 0))

\* ------------------------------------------------------------------------
\* Inputs
\* ------------------------------------------------------------------------
MaxPositions == 2
MaxSims == 3

CallA == EuropeanOption("Call", 100 * SCALE, SCALE, "A")
PutA == EuropeanOption("Put", 100 * SCALE, SCALE, "A")
CallB == EuropeanOption("Call", 80 * SCALE, 0, "B")

PositionChoices == {<<CallA, 1>>, <<CallA, -1>>, <<PutA, 0>>, <<CallB, 3>>}

EmptyMap == [id \in {} |-> 0]
MapOf(a, b) == [id \in {"A", "B"} |-> IF id = "A" THEN a ELSE b]

MarketMaps ==
    { EmptyMap,
      [id \in {"A"} |-> MarketDataDiv("A", 100 * SCALE, 50, 200, 20)],
      MapOf(MarketData("A", 100 * SCALE, 50, 200), MarketData("B", 90 * SCALE, 500, 0)),
      MapOf(MarketData("A", 0, 50, 200), MarketData("B", 90 * SCALE, 50, -100)),
      MapOf(MarketData("A", 100 * SCALE, NaN, 200), MarketData("B", PosInf, 50, 200)) }

SimulationArgs == {0, MaxSims, 1000001}
HorizonArgs == {0, SCALE, 253 * SCALE}
SeedArgs == {42}
RandomDevice == {3, 11}

\* what an operation leaves in last: a void operation that returned, an
\* operation that threw, with the objects as they were when it was called
NoOp == [op |-> "none", status |-> "returned"]
Rejected(name) ==
    [op |-> name, status |-> "raised",
     before |-> <<var_simulations_, time_horizon_days_, random_seed_, use_fixed_seed_>>]
NoRun == [status |-> "none", result |-> ZeroResult]
Summary(outcome) == [status |-> outcome.status, result |-> outcome.result]

\* ------------------------------------------------------------------------
\* Portfolio (Portfolio.h, Portfolio.cpp)
\* ------------------------------------------------------------------------
INT_MAX == 2147483647
INT_MIN == -2147483647 - 1

\* std::vector::emplace_back and std::vector::erase(begin() + index): the
\* elements behind the erased one move one place to the front
emplace_back(v, element) ==
    [k \in 1..(Len(v) + 1) |-> IF k <= Len(v) THEN v[k] ELSE element]

\* the erased element replaced by the last one
erase_swapped(v, index) ==
    [k \in 1..(Len(v) - 1) |-> IF k = index + 1 THEN v[Len(v)] ELSE v[k]]

erase(v, index) ==
    [k \in 1..(Len(v) - 1) |-> IF k <= index THEN v[k] ELSE v[k + 1]]

\* the index one past the end let through
validateIndex_inclusive(v, index) == ~(index > Len(v))

\* Portfolio::validateIndex: TRUE iff nothing is thrown
validateIndex(v, index) == ~(index >= Len(v))

\* the capacity after addInstrument: doubled by the explicit reserve when the
\* vector is full and not empty, and 1 when emplace_back has to allocate first
grown(size, cap) ==
    IF cap = size /\ size # 0 THEN 2 * size
    ELSE IF cap = size THEN 1
    ELSE cap

\* a call of a Portfolio method: what it returned or threw, its arguments and
\* the vector as the call found it
Returns(name, args, value) ==
    [op |-> name, status |-> "returned", error |-> "", args |-> args, value |-> value,
     size |-> Len(instruments)]
Throws(name, args, error) ==
    [op |-> name, status |-> "raised", error |-> error, args |-> args, value |-> 0,
     size |-> Len(instruments), before |-> instruments]

\* Portfolio::addInstrument; position = <<>> stands for a null unique_ptr
addInstrument(position) ==
    /\ IF position = <<>> \/ getAssetId(position[1]) = ""
       THEN /\ last' = Throws("addInstrument", position, "invalid_argument")
            /\ UNCHANGED <<instruments, capacity, positions>>
       ELSE /\ instruments' = emplace_back(instruments, position)
            /\ capacity' = grown(Len(instruments), capacity)
            /\ positions' = Append(positions, position)
            /\ last' = Returns("addInstrument", position, 0)
    /\ prev' = NoRun
    /\ UNCHANGED <<market_data_map, option, storeVars, engineVars>>

\* Portfolio::removeInstrument
removeInstrument(index) ==
    /\ IF ~validateIndex(instruments, index)
       THEN /\ last' = Throws("removeInstrument", <<index>>, "out_of_range")
            /\ UNCHANGED <<instruments, positions>>
       ELSE /\ instruments' = erase(instruments, index)
            /\ positions' = SubSeq(positions, 1, index)
                               \o SubSeq(positions, index + 2, Len(positions))
            /\ last' = Returns("removeInstrument", <<index>>, 0)
    /\ UNCHANGED <<capacity, market_data_map, option, storeVars, engineVars, prev>>

\* Portfolio::updateQuantity
updateQuantity(index, new_quantity) ==
    /\ IF ~validateIndex(instruments, index)
       THEN /\ last' = Throws("updateQuantity", <<index, new_quantity>>, "out_of_range")
            /\ UNCHANGED <<instruments, positions>>
       ELSE /\ instruments' = [instruments EXCEPT ![index + 1][2] = new_quantity]
            /\ positions' = [k \in 1..Len(positions) |->
                                IF k = index + 1 THEN <<positions[k][1], new_quantity>>
                                ELSE positions[k]]
            /\ last' = Returns("updateQuantity", <<index, new_quantity>>, 0)
    /\ UNCHANGED <<capacity, market_data_map, option, storeVars, engineVars, prev>>

\* Portfolio::clear; shrink_to_fit is a request the library may ignore
clear ==
    /\ instruments' = <<>>
    /\ capacity' \in {0, capacity}
    /\ positions' = <<>>
    /\ last' = Returns("clear", <<>>, 0)
    /\ UNCHANGED <<market_data_map, option, storeVars, engineVars, prev>>

\* Portfolio::reserve
reserve(new_capacity) ==
    /\ capacity' = Max(capacity, new_capacity)
    /\ last' = Returns("reserve", <<new_capacity>>, 0)
    /\ UNCHANGED <<instruments, positions, market_data_map, option, storeVars, engineVars, prev>>

\* Portfolio::size and Portfolio::empty
portfolioSize(v) == Len(v)
portfolioEmpty(v) == Len(v) = 0

RECURSIVE totalFrom_saturating(_, _, _, _)
RECURSIVE totalFrom_wrapping(_, _, _, _)
RECURSIVE totalFrom(_, _, _, _)

\* the sum held at the limit it would pass instead of raising
totalFrom_saturating(v, asset_id, i, total) ==
    IF i > Len(v) THEN Ok(total)
    ELSE IF getAssetId(v[i][1]) # asset_id THEN totalFrom_saturating(v, asset_id, i + 1, total)
    ELSE IF v[i][2] > 0 /\ total > INT_MAX - v[i][2]
    THEN totalFrom_saturating(v, asset_id, i + 1, INT_MAX)
    ELSE IF v[i][2] < 0 /\ total < INT_MIN - v[i][2]
    THEN totalFrom_saturating(v, asset_id, i + 1, INT_MIN)
    ELSE totalFrom_saturating(v, asset_id, i + 1, total + v[i][2])

\* the sum without the overflow test: signed addition wraps around
totalFrom_wrapping(v, asset_id, i, total) ==
    IF i > Len(v) THEN Ok(total)
    ELSE IF getAssetId(v[i][1]) # asset_id THEN totalFrom_wrapping(v, asset_id, i + 1, total)
    ELSE IF v[i][2] > 0 /\ total > INT_MAX - v[i][2]
    THEN totalFrom_wrapping(v, asset_id, i + 1, (total - INT_MAX) + (v[i][2] - INT_MAX) - 2)
    ELSE IF v[i][2] < 0 /\ total < INT_MIN - v[i][2]
    THEN totalFrom_wrapping(v, asset_id, i + 1, (total - INT_MIN) + (v[i][2] - INT_MIN))
    ELSE totalFrom_wrapping(v, asset_id, i + 1, total + v[i][2])

\* the loop of getTotalQuantityForAsset from element i on
totalFrom(v, asset_id, i, total) ==
    IF i > Len(v) THEN Ok(total)
    ELSE IF getAssetId(v[i][1]) # asset_id THEN totalFrom(v, asset_id, i + 1, total)
    ELSE IF \/ (v[i][2] > 0 /\ total > INT_MAX - v[i][2])
            \/ (v[i][2] < 0 /\ total < INT_MIN - v[i][2])
    THEN Throw
    ELSE totalFrom(v, asset_id, i + 1, total + v[i][2])

totalled(asset_id, total) ==
    IF total.ok THEN Returns("getTotalQuantityForAsset", <<asset_id>>, total.v)
    ELSE Throws("getTotalQuantityForAsset", <<asset_id>>, "overflow_error")

\* Portfolio::getTotalQuantityForAsset
getTotalQuantityForAsset(asset_id) ==
    /\ last' = IF asset_id = ""
               THEN Throws("getTotalQuantityForAsset", <<asset_id>>, "invalid_argument")
               ELSE totalled(asset_id, totalFrom(instruments, asset_id, 1, 0))
    /\ UNCHANGED <<portfolioVars, market_data_map, option, storeVars, engineVars, prev>>

\* a Portfolio on its own
MaxHoldings == 3

\* an object of another class derived from Instrument
OtherInstrument(asset_id) == [instrument_type |-> "Other", underlying_asset_id_ |-> asset_id]

HoldingChoices ==
    {<<CallA, INT_MAX>>, <<PutA, 1>>, <<CallA, -1>>, <<CallB, INT_MIN>>, <<CallB, 0>>}
HoldingArgs == HoldingChoices \cup {<<>>, <<OtherInstrument(""), 1>>}
IndexArgs == 0..MaxHoldings
QuantityArgs == {-1}
CapacityArgs == {0, 8}
AssetArgs == {"A", "B", "C", ""}

InitPortfolio ==
    /\ instruments = <<>>
    /\ capacity = 0
    /\ positions = <<>>
    /\ market_data_map = EmptyMap
    /\ market_data_map_ = EmptyMap
    /\ market_data = MarketData("A", 100 * SCALE, 50, 200)
    /\ var_simulations_ = 10000
    /\ time_horizon_days_ = SCALE
    /\ random_seed_ = 0
    /\ use_fixed_seed_ = FALSE
    /\ last = NoOp
    /\ prev = NoRun
    /\ option = CallA

NextPortfolio ==
    \/ \E position \in HoldingArgs :
          Len(instruments) < MaxHoldings /\ addInstrument(position)
    \/ \E index \in IndexArgs : removeInstrument(index)
    \/ \E index \in IndexArgs, new_quantity \in QuantityArgs :
          updateQuantity(index, new_quantity)
    \/ clear
    \/ \E new_capacity \in CapacityArgs : reserve(new_capacity)
    \/ \E asset_id \in AssetArgs : getTotalQuantityForAsset(asset_id)

SpecPortfolio == InitPortfolio /\ [][NextPortfolio]_vars

\* ------------------------------------------------------------------------
\* Operations of RiskEngine
\* ------------------------------------------------------------------------
\* RiskEngine(int var_simulations) with an empty Portfolio and the caller's map
Init ==
    /\ instruments = <<>>
    /\ capacity = 0
    /\ positions = <<>>
    /\ market_data_map \in MarketMaps
    /\ market_data_map_ = EmptyMap
    /\ market_data = MarketData("A", 100 * SCALE, 50, 200)
    /\ var_simulations_ \in {n \in SimulationArgs : validateParameters(n, SCALE)}
    /\ time_horizon_days_ = SCALE
    /\ random_seed_ = 0
    /\ use_fixed_seed_ = FALSE
    /\ last = NoOp
    /\ prev = NoRun
    /\ option = CallA

setVaRSimulations(simulations) ==
    /\ IF simulations <= 0 \/ simulations > 1000000
       THEN /\ last' = Rejected("setVaRSimulations")
            /\ UNCHANGED var_simulations_
       ELSE /\ var_simulations_' = simulations
            /\ last' = NoOp
    /\ prev' = NoRun
    /\ UNCHANGED <<portfolioVars, market_data_map, option, storeVars, time_horizon_days_,
                   random_seed_, use_fixed_seed_>>

\* days <= 0.0 and days > 252.0 are both false for a NaN
setVaRTimeHorizonDays(days) ==
    /\ IF LeZero(days) \/ (IsFinite(days) /\ days > 252 * SCALE) \/ days = PosInf
       THEN /\ last' = Rejected("setVaRTimeHorizonDays")
            /\ UNCHANGED time_horizon_days_
       ELSE /\ time_horizon_days_' = days
            /\ last' = NoOp
    /\ prev' = NoRun
    /\ UNCHANGED <<portfolioVars, market_data_map, option, storeVars, var_simulations_,
                   random_seed_, use_fixed_seed_>>

setRandomSeed(seed) ==
    /\ random_seed_' = seed
    /\ use_fixed_seed_' = TRUE
    /\ last' = NoOp
    /\ prev' = NoRun
    /\ UNCHANGED <<portfolioVars, market_data_map, option, storeVars, var_simulations_,
                   time_horizon_days_>>

setUseFixedSeed(use_fixed) ==
    /\ use_fixed_seed_' = use_fixed
    /\ last' = NoOp
    /\ prev' = NoRun
    /\ UNCHANGED <<portfolioVars, market_data_map, option, storeVars, var_simulations_,
                   time_horizon_days_, random_seed_>>

\* RiskEngine::calculatePortfolioRisk; rd is the value std::random_device yields.
\* The portfolio and the map are const references
calculatePortfolioRisk(rd) ==
    /\ last' = [portfolioRisk(instruments, market_data_map, var_simulations_,
                              time_horizon_days_, use_fixed_seed_, random_seed_, rd)
                  EXCEPT !.before = <<instruments, market_data_map>>]
    /\ prev' = IF last.op = "calculatePortfolioRisk" THEN Summary(last) ELSE NoRun
    /\ UNCHANGED <<portfolioVars, market_data_map, option, storeVars, engineVars>>

Next ==
    \/ \E position \in PositionChoices \cup {<<>>} :
          Len(instruments) < MaxPositions /\ addInstrument(position)
    \/ \E simulations \in SimulationArgs : setVaRSimulations(simulations)
    \/ \E days \in HorizonArgs : setVaRTimeHorizonDays(days)
    \/ \E seed \in SeedArgs : setRandomSeed(seed)
    \/ \E use_fixed \in BOOLEAN : setUseFixedSeed(use_fixed)
    \/ \E rd \in RandomDevice : calculatePortfolioRisk(rd)

Spec == Init /\ [][Next]_vars

\* ------------------------------------------------------------------------
\* The extraction step of calculateRiskMetrics on its own
\* ------------------------------------------------------------------------
MaxVaRSims == 100
VaRSims == {1, 2, 19, 20, 21, 40, 99, MaxVaRSims}

\* P&L distributions the simulation loop hands over: one value repeated (every
\* asset of the portfolio has volatility 0) and scattered values
ConstantPnl(n, c) == [i \in 1..n |-> c]
ScatteredPnl(n, a, m, offset) == [i \in 1..n |-> ((a * i * i + 3 * i) % m) - offset]

PnlChoices(n) ==
    {ConstantPnl(n, c) : c \in {16777180, -16777178, 540, 0}}
    \cup {ScatteredPnl(n, p[1], p[2], p[3]) :
            p \in {<<7, 11, 5>>, <<13, 101, 50>>, <<1, 1000, 0>>, <<5, 37, 40>>,
                   <<3, 16777213, 16777000>>}}

InitVaR ==
    /\ instruments = <<>>
    /\ capacity = 0
    /\ positions = <<>>
    /\ market_data_map = EmptyMap
    /\ market_data_map_ = EmptyMap
    /\ market_data = MarketData("A", 100 * SCALE, 50, 200)
    /\ var_simulations_ \in VaRSims
    /\ time_horizon_days_ = SCALE
    /\ random_seed_ = 0
    /\ use_fixed_seed_ = FALSE
    /\ last \in {[op |-> "simulate", pnl |-> pnl] : pnl \in PnlChoices(var_simulations_)}
    /\ prev = NoRun
    /\ option = CallA

\* RiskEngine.cpp 282-326: from the filled pnl_distribution to the RiskMetrics
extractRiskMetrics ==
    /\ last.op = "simulate"
    /\ last' = [op |-> "calculateRiskMetrics", pnl |-> last.pnl,
                out |-> riskMetricsFromPnl(last.pnl, var_simulations_)]
    /\ UNCHANGED <<portfolioVars, market_data_map, option, storeVars, engineVars, prev>>

NextVaR == extractRiskMetrics

SpecVaR == InitVaR /\ [][NextVaR]_vars


\* ------------------------------------------------------------------------
\* The configuration of RiskEngine on its own: constructors and setters
\* ------------------------------------------------------------------------
ConfigSimulations == {-1, 0, 1, MaxSims, 10000, 1000000, 1000001}
ConfigHorizons == {NegInf, -SCALE, 0, 1, SCALE, 252 * SCALE, 252 * SCALE + 1, PosInf, NaN}
ConfigSeeds == {0, 42}

\* engine = RiskEngine()
RiskEngine ==
    /\ var_simulations_' = 10000
    /\ time_horizon_days_' = SCALE
    /\ random_seed_' = 0
    /\ use_fixed_seed_' = FALSE
    /\ last' = NoOp
    /\ UNCHANGED <<portfolioVars, market_data_map, option, storeVars, prev>>

\* engine = RiskEngine(var_simulations): the members are initialised, then
\* validateParameters throws or the new engine replaces the one held
RiskEngineOf(var_simulations) ==
    /\ IF ~validateParameters(var_simulations, SCALE)
       THEN /\ last' = Rejected("RiskEngine")
            /\ UNCHANGED engineVars
       ELSE /\ var_simulations_' = var_simulations
            /\ time_horizon_days_' = SCALE
            /\ random_seed_' = 0
            /\ use_fixed_seed_' = FALSE
            /\ last' = NoOp
    /\ UNCHANGED <<portfolioVars, market_data_map, option, storeVars, prev>>

InitConfig ==
    /\ instruments = <<>>
    /\ capacity = 0
    /\ positions = <<>>
    /\ market_data_map = EmptyMap
    /\ market_data_map_ = EmptyMap
    /\ market_data = MarketData("A", 100 * SCALE, 50, 200)
    /\ var_simulations_ = 10000
    /\ time_horizon_days_ = SCALE
    /\ random_seed_ = 0
    /\ use_fixed_seed_ = FALSE
    /\ last = NoOp
    /\ prev = NoRun
    /\ option = CallA

NextConfig ==
    \/ RiskEngine
    \/ \E var_simulations \in ConfigSimulations : RiskEngineOf(var_simulations)
    \/ \E simulations \in ConfigSimulations : setVaRSimulations(simulations)
    \/ \E days \in ConfigHorizons : setVaRTimeHorizonDays(days)
    \/ \E seed \in ConfigSeeds : setRandomSeed(seed)
    \/ \E use_fixed \in BOOLEAN : setUseFixedSeed(use_fixed)

SpecConfig == InitConfig /\ [][NextConfig]_vars

\* ------------------------------------------------------------------------
\* MarketData objects and MarketDataManager (MarketData.h, MarketData.cpp)
\* ------------------------------------------------------------------------
\* MarketData::validate: TRUE iff nothing is thrown (every throw is an
\* invalid_argument); the sign tests come first and are false on NaN
validate(md) ==
    /\ md.asset_id # ""
    /\ ~LeZero(md.spot_price)
    /\ ~LtZero(md.volatility)
    /\ ~LtZero(md.dividend_yield)
    /\ IsFinite(md.spot_price)
    /\ IsFinite(md.risk_free_rate)
    /\ IsFinite(md.volatility)
    /\ IsFinite(md.dividend_yield)

\* MarketData::isValid
isValidMarketData(md) == validate(md)

\* a call on a MarketData object or on the manager: what it returned or
\* threw, its arguments, and the map as the call found it
Answered(name, args, value) ==
    [op |-> name, status |-> "returned", error |-> "", args |-> args, value |-> value,
     size |-> Cardinality(DOMAIN market_data_map_), before |-> market_data_map_]
Refused(name, args, error) ==
    [op |-> name, status |-> "raised", error |-> error, args |-> args, value |-> <<>>,
     size |-> Cardinality(DOMAIN market_data_map_), before |-> market_data_map_]

\* MarketData md;
newMarketData ==
    /\ market_data' = [asset_id |-> "", spot_price |-> 0, risk_free_rate |-> 0,
                       volatility |-> 0, dividend_yield |-> 0]
    /\ last' = Answered("MarketData", <<>>, <<>>)
    /\ UNCHANGED <<portfolioVars, market_data_map, option, market_data_map_, engineVars, prev>>

\* a constructor with arguments: the members are initialised, then validate
\* throws or the new object replaces the one held
constructed(name, args, md) ==
    /\ IF ~validate(md)
       THEN /\ last' = Refused(name, args, "invalid_argument")
            /\ UNCHANGED market_data
       ELSE /\ market_data' = md
            /\ last' = Answered(name, args, <<>>)
    /\ UNCHANGED <<portfolioVars, market_data_map, option, market_data_map_, engineVars, prev>>

\* MarketData md(id, spot, rate, vol);
newMarketData4(id, spot, rate, vol) ==
    constructed("MarketData4", <<id, spot, rate, vol>>, MarketData(id, spot, rate, vol))

\* MarketData md(id, spot, rate, vol, div);
newMarketData5(id, spot, rate, vol, div) ==
    constructed("MarketData5", <<id, spot, rate, vol, div>>,
                MarketDataDiv(id, spot, rate, vol, div))

\* md.field = value; the members are public
assignField(field, value) ==
    /\ market_data' = [market_data EXCEPT ![field] = value]
    /\ last' = Answered("assign", <<field, value>>, <<>>)
    /\ UNCHANGED <<portfolioVars, market_data_map, option, market_data_map_, engineVars, prev>>

\* market_data_map_.find(asset_id) != market_data_map_.end()
found(map, asset_id) == asset_id \in DOMAIN map

\* market_data_map_[asset_id] = md
assigned_keyed(map, asset_id, md) ==
    [k \in DOMAIN map \cup {md.asset_id} |-> IF k = md.asset_id THEN md ELSE map[k]]

assigned(map, asset_id, md) ==
    [k \in DOMAIN map \cup {asset_id} |-> IF k = asset_id THEN md ELSE map[k]]

\* market_data_map_.erase(it)
erased(map, asset_id) == [k \in DOMAIN map \ {asset_id} |-> map[k]]

\* MarketDataManager::getMarketData as a function of the map
lookup(map, asset_id) ==
    IF asset_id = "" THEN [status |-> "raised", error |-> "invalid_argument", value |-> <<>>]
    ELSE IF ~found(map, asset_id)
    THEN [status |-> "raised", error |-> "runtime_error", value |-> <<>>]
    ELSE [status |-> "returned", error |-> "", value |-> map[asset_id]]

\* MarketDataManager::addMarketData
addMarketData(asset_id, md) ==
    /\ IF asset_id = "" \/ ~validate(md)
       THEN /\ last' = Refused("addMarketData", <<asset_id, md>>, "invalid_argument")
            /\ UNCHANGED market_data_map_
       ELSE IF found(market_data_map_, asset_id)
       THEN /\ last' = Refused("addMarketData", <<asset_id, md>>, "runtime_error")
            /\ UNCHANGED market_data_map_
       ELSE /\ market_data_map_' = assigned(market_data_map_, asset_id, md)
            /\ last' = Answered("addMarketData", <<asset_id, md>>, <<>>)
    /\ UNCHANGED <<portfolioVars, market_data_map, option, market_data, engineVars, prev>>

\* MarketDataManager::updateMarketData
updateMarketData(asset_id, md) ==
    /\ IF asset_id = "" \/ ~validate(md)
       THEN /\ last' = Refused("updateMarketData", <<asset_id, md>>, "invalid_argument")
            /\ UNCHANGED market_data_map_
       ELSE IF ~found(market_data_map_, asset_id)
       THEN /\ last' = Refused("updateMarketData", <<asset_id, md>>, "runtime_error")
            /\ UNCHANGED market_data_map_
       ELSE /\ market_data_map_' = assigned(market_data_map_, asset_id, md)
            /\ last' = Answered("updateMarketData", <<asset_id, md>>, <<>>)
    /\ UNCHANGED <<portfolioVars, market_data_map, option, market_data, engineVars, prev>>

\* MarketDataManager::getMarketData
getMarketData(asset_id) ==
    /\ last' = LET got == lookup(market_data_map_, asset_id)
               IN  IF got.status = "raised"
                   THEN Refused("getMarketData", <<asset_id>>, got.error)
                   ELSE Answered("getMarketData", <<asset_id>>, got.value)
    /\ UNCHANGED <<portfolioVars, market_data_map, option, storeVars, engineVars, prev>>

\* MarketDataManager::hasMarketData
hasMarketData(asset_id) ==
    /\ last' = Answered("hasMarketData", <<asset_id>>, found(market_data_map_, asset_id))
    /\ UNCHANGED <<portfolioVars, market_data_map, option, storeVars, engineVars, prev>>

\* MarketDataManager::removeMarketData
removeMarketData(asset_id) ==
    /\ IF asset_id = ""
       THEN /\ last' = Refused("removeMarketData", <<asset_id>>, "invalid_argument")
            /\ UNCHANGED market_data_map_
       ELSE IF ~found(market_data_map_, asset_id)
       THEN /\ last' = Refused("removeMarketData", <<asset_id>>, "runtime_error")
            /\ UNCHANGED market_data_map_
       ELSE /\ market_data_map_' = erased(market_data_map_, asset_id)
            /\ last' = Answered("removeMarketData", <<asset_id>>, <<>>)
    /\ UNCHANGED <<portfolioVars, market_data_map, option, market_data, engineVars, prev>>

\* MarketDataManager::clear
clearMarketData ==
    /\ market_data_map_' = EmptyMap
    /\ last' = Answered("clear", <<>>, <<>>)
    /\ UNCHANGED <<portfolioVars, market_data_map, option, market_data, engineVars, prev>>

\* MarketDataManager::size
sizeMarketData ==
    /\ last' = Answered("size", <<>>, Cardinality(DOMAIN market_data_map_))
    /\ UNCHANGED <<portfolioVars, market_data_map, option, storeVars, engineVars, prev>>

\* MarketDataManager::getAllMarketData
getAllMarketData ==
    /\ last' = Answered("getAllMarketData", <<>>, market_data_map_)
    /\ UNCHANGED <<portfolioVars, market_data_map, option, storeVars, engineVars, prev>>

\* the arguments the callers choose
StoreIds == {"", "A", "B"}
StoreSpots == {0, 100 * SCALE, NaN}
StoreRates == {50, PosInf}
StoreVols == {200, -1}
StoreDividends == {20, -1, NaN}
FieldAssignments ==
    {<<"asset_id", "">>, <<"spot_price", -SCALE>>, <<"volatility", NaN>>,
     <<"dividend_yield", 20>>}

InitStore ==
    /\ instruments = <<>>
    /\ capacity = 0
    /\ positions = <<>>
    /\ market_data_map = EmptyMap
    /\ market_data_map_ = EmptyMap
    /\ market_data = MarketData("A", 100 * SCALE, 50, 200)
    /\ var_simulations_ = 10000
    /\ time_horizon_days_ = SCALE
    /\ random_seed_ = 0
    /\ use_fixed_seed_ = FALSE
    /\ last = NoOp
    /\ prev = NoRun
    /\ option = CallA

NextStore ==
    \/ newMarketData
    \/ \E id \in StoreIds, spot \in StoreSpots, rate \in StoreRates, vol \in StoreVols :
           newMarketData4(id, spot, rate, vol)
    \/ \E id \in StoreIds, div \in StoreDividends :
           newMarketData5(id, 100 * SCALE, 50, 200, div)
    \/ \E assignment \in FieldAssignments : assignField(assignment[1], assignment[2])
    \/ \E asset_id \in StoreIds : addMarketData(asset_id, market_data)
    \/ \E asset_id \in StoreIds : updateMarketData(asset_id, market_data)
    \/ \E asset_id \in StoreIds : getMarketData(asset_id)
    \/ \E asset_id \in StoreIds : hasMarketData(asset_id)
    \/ \E asset_id \in StoreIds : removeMarketData(asset_id)
    \/ clearMarketData
    \/ sizeMarketData
    \/ getAllMarketData

SpecStore == InitStore /\ [][NextStore]_vars

\* ------------------------------------------------------------------------
\* An option on its own: constructors, setters, price, gamma and vega
\* ------------------------------------------------------------------------
\* EuropeanOption::validateParameters and AmericanOption::validateParameters
\* on the arguments of a constructor: TRUE iff nothing is thrown
optionValidateParameters(strike, time_to_expiry, asset_id, binomial_steps) ==
    /\ ~LeZero(strike)
    /\ ~LtZero(time_to_expiry)
    /\ asset_id # ""
    /\ ~(binomial_steps < 1 \/ binomial_steps > 10000)

\* a call on the option: what it returned or threw and on which object
OptionCall(name, args, outcome, kernel) ==
    [op |-> name, status |-> IF outcome.ok THEN "returned" ELSE "raised",
     value |-> outcome.v, kernel |-> kernel, args |-> args, inst |-> option]

\* option = EuropeanOption(type, strike, time_to_expiry, asset_id)
newEuropeanOption(type, strike, time_to_expiry, asset_id) ==
    /\ IF ~optionValidateParameters(strike, time_to_expiry, asset_id, 100)
       THEN /\ last' = OptionCall("EuropeanOption", <<type, strike, time_to_expiry, asset_id>>,
                                  Throw, Throw)
            /\ UNCHANGED option
       ELSE /\ option' = EuropeanOption(type, strike, time_to_expiry, asset_id)
            /\ last' = OptionCall("EuropeanOption", <<type, strike, time_to_expiry, asset_id>>,
                                  Ok(0), Throw)
    /\ UNCHANGED <<portfolioVars, market_data_map, storeVars, engineVars, prev>>

\* option = AmericanOption(type, strike, time_to_expiry, asset_id, binomial_steps)
newAmericanOption(type, strike, time_to_expiry, asset_id, binomial_steps) ==
    /\ IF ~optionValidateParameters(strike, time_to_expiry, asset_id, binomial_steps)
       THEN /\ last' = OptionCall("AmericanOption",
                                  <<type, strike, time_to_expiry, asset_id, binomial_steps>>,
                                  Throw, Throw)
            /\ UNCHANGED option
       ELSE /\ option' = AmericanOption(type, strike, time_to_expiry, asset_id,
                                        binomial_steps)
            /\ last' = OptionCall("AmericanOption",
                                  <<type, strike, time_to_expiry, asset_id, binomial_steps>>,
                                  Ok(0), Throw)
    /\ UNCHANGED <<portfolioVars, market_data_map, storeVars, engineVars, prev>>

\* EuropeanOption::setPricingModel
setPricingModel(model) ==
    /\ option.class = "EuropeanOption"
    /\ option' = [option EXCEPT !.pricing_model_ = model]
    /\ last' = OptionCall("setPricingModel", <<model>>, Ok(0), Throw)
    /\ UNCHANGED <<portfolioVars, market_data_map, storeVars, engineVars, prev>>

\* EuropeanOption::setBinomialSteps and AmericanOption::setBinomialSteps
setBinomialSteps(steps) ==
    /\ IF steps < 1 \/ steps > 10000
       THEN /\ last' = OptionCall("setBinomialSteps", <<steps>>, Throw, Throw)
            /\ UNCHANGED option
       ELSE /\ option' = [option EXCEPT !.binomial_steps_ = steps]
            /\ last' = OptionCall("setBinomialSteps", <<steps>>, Ok(0), Throw)
    /\ UNCHANGED <<portfolioVars, market_data_map, storeVars, engineVars, prev>>

\* EuropeanOption::setJumpParameters
setJumpParameters(lambda, jump_mean, jump_vol) ==
    /\ option.class = "EuropeanOption"
    /\ IF LtZero(lambda) \/ LtZero(jump_vol)
       THEN /\ last' = OptionCall("setJumpParameters", <<lambda, jump_mean, jump_vol>>,
                                  Throw, Throw)
            /\ UNCHANGED option
       ELSE /\ option' = [option EXCEPT !.jump_intensity_ = lambda,
                                        !.jump_mean_ = jump_mean,
                                        !.jump_volatility_ = jump_vol]
            /\ last' = OptionCall("setJumpParameters", <<lambda, jump_mean, jump_vol>>,
                                  Ok(0), Throw)
    /\ UNCHANGED <<portfolioVars, market_data_map, storeVars, engineVars, prev>>

\* option.price(md), with what the kernel handed to it
priced(md, kernel) ==
    /\ last' = OptionCall("price", <<md>>, checkedPrice(option, md, kernel),
                          IF marketDataAccepted(option, md) THEN kernel ELSE Throw)
    /\ UNCHANGED <<portfolioVars, market_data_map, storeVars, option, engineVars, prev>>

priceCalled(md) == priced(md, kernelPrice(option, md))

\* option.gamma(md)
gammaCalled(md) ==
    /\ last' = OptionCall("gamma", <<md>>, gammaOf(option, md), Throw)
    /\ UNCHANGED <<portfolioVars, market_data_map, storeVars, option, engineVars, prev>>

\* option.vega(md)
vegaCalled(md) ==
    /\ last' = OptionCall("vega", <<md>>, vegaOf(option, md), Throw)
    /\ UNCHANGED <<portfolioVars, market_data_map, storeVars, option, engineVars, prev>>

\* the largest tree the calls price
MaxSteps == 3

\* the tree of the option is one of those
treeWithin(inst) ==
    (inst.class = "AmericanOption" \/ inst.pricing_model_ = "Binomial")
        => inst.binomial_steps_ <= MaxSteps

\* the arguments the callers choose: options near the money, deep in and deep
\* out of it, market data that is well-formed
OptionTypes == {"Call", "Put"}
OptionStrikes == {0, 500, 2000}
OptionExpiries == {0, 500}
OptionSteps == {0, 2, 100}
StepArgs == {0, MaxSteps - 1, MaxSteps}
PricingModels == {"BlackScholes", "Binomial", "MertonJumpDiffusion"}
JumpArgs == {<<0, 0, 0>>, <<500, -100, 200>>, <<-1, 0, 0>>}
PricingMarketData ==
    {MarketData("A", 1250, 50, 200), MarketData("A", 2000, 50, 200),
     MarketData("A", 1000, 500, 200)}

InitPricing ==
    /\ instruments = <<>>
    /\ capacity = 0
    /\ positions = <<>>
    /\ market_data_map = EmptyMap
    /\ market_data_map_ = EmptyMap
    /\ market_data = MarketData("A", 100 * SCALE, 50, 200)
    /\ var_simulations_ = 10000
    /\ time_horizon_days_ = SCALE
    /\ random_seed_ = 0
    /\ use_fixed_seed_ = FALSE
    /\ last = NoOp
    /\ prev = NoRun
    /\ option = EuropeanOption("Call", 2000, 500, "A")

NextPricing ==
    \/ \E type \in OptionTypes, strike \in OptionStrikes, time_to_expiry \in OptionExpiries :
           newEuropeanOption(type, strike, time_to_expiry, "A")
    \/ \E type \in OptionTypes, strike \in OptionStrikes, time_to_expiry \in OptionExpiries,
          binomial_steps \in OptionSteps :
           newAmericanOption(type, strike, time_to_expiry, "A", binomial_steps)
    \/ \E model \in PricingModels : setPricingModel(model)
    \/ \E steps \in StepArgs : setBinomialSteps(steps)
    \/ \E jump \in JumpArgs : setJumpParameters(jump[1], jump[2], jump[3])
    \/ \E md \in PricingMarketData : treeWithin(option) /\ priceCalled(md)
    \/ \E md \in PricingMarketData : treeWithin(option) /\ gammaCalled(md)
    \/ \E md \in PricingMarketData : treeWithin(option) /\ vegaCalled(md)

SpecPricing == InitPricing /\ [][NextPricing]_vars

\* ------------------------------------------------------------------------
\* The constructors and setters of the options on their own, with arguments
\* at and beyond the limits and arguments that are no numbers
\* ------------------------------------------------------------------------
ParameterStrikes == {0, 2000, NaN}
ParameterExpiries == {-1, 500}
ParameterIds == {"", "A"}
ParameterSteps == {0, 10000, 10001}
ParameterJumps == {<<0, 0, 0>>, <<500, -100, 200>>, <<-1, 0, 0>>, <<0, 0, -1>>,
                   <<NaN, 0, NaN>>}

NextOption ==
    \/ \E strike \in ParameterStrikes, time_to_expiry \in ParameterExpiries,
          asset_id \in ParameterIds :
           newEuropeanOption("Call", strike, time_to_expiry, asset_id)
    \/ \E strike \in ParameterStrikes, time_to_expiry \in ParameterExpiries,
          asset_id \in ParameterIds, binomial_steps \in ParameterSteps :
           newAmericanOption("Put", strike, time_to_expiry, asset_id, binomial_steps)
    \/ \E model \in PricingModels : setPricingModel(model)
    \/ \E steps \in ParameterSteps : setBinomialSteps(steps)
    \/ \E jump \in ParameterJumps : setJumpParameters(jump[1], jump[2], jump[3])

SpecOption == InitPricing /\ [][NextOption]_vars

\* ------------------------------------------------------------------------
\* The pricing kernels called on their own (utils/BlackScholes.cpp,
\* utils/BinomialTree.cpp, utils/JumpDiffusion.cpp)
\* ------------------------------------------------------------------------
\* a call of a kernel that has not run yet, and the call once it has
Pending(fn, args) == [op |-> "call", fn |-> fn, args |-> args]

KernelCall(outcome, detail) ==
    [op |-> last.fn, args |-> last.args,
     status |-> IF outcome.ok THEN "returned" ELSE "raised",
     value |-> outcome.v, detail |-> detail]

\* the tree a call of americanCallPrice or americanPutPrice builds, if any
treeBuilt(args) ==
    IF LeZero(args.T) \/ LeZero(args.sigma) THEN [built |-> FALSE]
    ELSE [built |-> TRUE, steps |-> stepsUsed(args.steps),
          tree |-> treeParameters(args.r, args.T, args.sigma, stepsUsed(args.steps)),
          p |-> probability(treeParameters(args.r, args.T, args.sigma,
                                           stepsUsed(args.steps)))]

\* BinomialTree::americanCallPrice(S, K, r, T, sigma, steps)
americanCallPriceCalled ==
    /\ last.op = "call" /\ last.fn = "americanCallPrice"
    /\ last' = KernelCall(Ok(americanCallPrice(last.args.S, last.args.K, last.args.r,
                                               last.args.T, last.args.sigma,
                                               last.args.steps)),
                          treeBuilt(last.args))
    /\ UNCHANGED <<portfolioVars, market_data_map, storeVars, option, engineVars, prev>>

\* BinomialTree::americanPutPrice(S, K, r, T, sigma, steps)
americanPutPriceCalled ==
    /\ last.op = "call" /\ last.fn = "americanPutPrice"
    /\ last' = KernelCall(Ok(americanPutPrice(last.args.S, last.args.K, last.args.r,
                                              last.args.T, last.args.sigma,
                                              last.args.steps)),
                          treeBuilt(last.args))
    /\ UNCHANGED <<portfolioVars, market_data_map, storeVars, option, engineVars, prev>>

\* BlackScholes::callPrice(S, K, r, T, sigma)
callPriceCalled ==
    /\ last.op = "call" /\ last.fn = "callPrice"
    /\ last' = KernelCall(IF validateInputs(last.args.S, last.args.K, last.args.r,
                                            last.args.T, last.args.sigma)
                          THEN Ok(callPrice(last.args.S, last.args.K, last.args.r,
                                            last.args.T, last.args.sigma))
                          ELSE Throw,
                          [built |-> FALSE])
    /\ UNCHANGED <<portfolioVars, market_data_map, storeVars, option, engineVars, prev>>

\* BlackScholes::putPrice(S, K, r, T, sigma)
putPriceCalled ==
    /\ last.op = "call" /\ last.fn = "putPrice"
    /\ last' = KernelCall(IF validateInputs(last.args.S, last.args.K, last.args.r,
                                            last.args.T, last.args.sigma)
                          THEN Ok(putPrice(last.args.S, last.args.K, last.args.r,
                                           last.args.T, last.args.sigma))
                          ELSE Throw,
                          [built |-> FALSE])
    /\ UNCHANGED <<portfolioVars, market_data_map, storeVars, option, engineVars, prev>>

\* the series a call of mertonCallPrice or mertonPutPrice sums, if any
seriesSummed(type, args) ==
    IF ~mertonPrice(args.S, args.K, args.r, args.T, args.sigma, type, args.lambda,
                    args.jump_mean, args.jump_vol, 0).ok
       \/ args.T = 0
    THEN [summed |-> FALSE]
    ELSE [summed |-> TRUE,
          series |-> mertonSeries(args.S, args.K, args.r, args.T, args.sigma, type,
                                  args.lambda, args.jump_mean, args.jump_vol,
                                  args.max_jumps)]

\* JumpDiffusion::mertonCallPrice(S, K, r, T, sigma, lambda, jump_mean,
\* jump_vol, max_jumps)
mertonCallPriceCalled ==
    /\ last.op = "call" /\ last.fn = "mertonCallPrice"
    /\ last' = KernelCall(mertonCallPrice(last.args.S, last.args.K, last.args.r,
                                          last.args.T, last.args.sigma, last.args.lambda,
                                          last.args.jump_mean, last.args.jump_vol,
                                          last.args.max_jumps),
                          seriesSummed("Call", last.args))
    /\ UNCHANGED <<portfolioVars, market_data_map, storeVars, option, engineVars, prev>>

\* JumpDiffusion::mertonPutPrice(S, K, r, T, sigma, lambda, jump_mean,
\* jump_vol, max_jumps)
mertonPutPriceCalled ==
    /\ last.op = "call" /\ last.fn = "mertonPutPrice"
    /\ last' = KernelCall(mertonPutPrice(last.args.S, last.args.K, last.args.r,
                                         last.args.T, last.args.sigma, last.args.lambda,
                                         last.args.jump_mean, last.args.jump_vol,
                                         last.args.max_jumps),
                          seriesSummed("Put", last.args))
    /\ UNCHANGED <<portfolioVars, market_data_map, storeVars, option, engineVars, prev>>

\* what the search handed back, as the outcome of the call
searched(search) ==
    KernelCall([ok |-> search.ok, v |-> search.v], [iterates |-> search.iterates])

\* BlackScholes::impliedVolatility(market_price, S, K, r, T, is_call,
\* initial_guess, tolerance, max_iterations)
impliedVolatilityCalled ==
    /\ last.op = "call" /\ last.fn = "impliedVolatility"
    /\ last' = searched(impliedVolatility(last.args.market_price, last.args.S,
                                          last.args.K, last.args.r, last.args.T,
                                          last.args.is_call, last.args.initial_guess,
                                          last.args.tolerance, last.args.max_iterations))
    /\ UNCHANGED <<portfolioVars, market_data_map, storeVars, option, engineVars, prev>>

\* the arguments of the calls: at and away from the money, at and before
\* expiry, trees of few steps, rates that put p above 1, series of no, few
\* and many jumps, market prices below, at and above the price at the
\* initial guess
\* the most iterations a search is given
MaxIterations == 6

TreeArgs ==
    {a \in [S : {1000, 1250}, K : {1000, 2000}, r : {50, 500}, T : {0, 500},
            sigma : {0, 200}, steps : {0, 1, MaxSteps}] :
        a.steps > 0 \/ a.T = 0 \/ a.sigma = 0}

BlackScholesArgs ==
    [S : {1000, 1250}, K : {1000, 2000}, r : {50, 500, NaN}, T : {0, 500},
     sigma : {-100, 0, 200}]

MertonArgs ==
    [S : {1000}, K : {800, 1250}, r : {50}, T : {0, 1000}, sigma : {-100, 200},
     lambda : {-1, 0, 500, 2000, 24000}, jump_mean : {-100}, jump_vol : {0, 200},
     max_jumps : {0, 2, max_jumps}]

ImpliedVolatilityArgs ==
    [market_price : {2, 80, 119, 900}, S : {1000}, K : {1000, 1250}, r : {0, 50},
     T : {0, 1000}, is_call : BOOLEAN, initial_guess : {300}, tolerance : {1},
     max_iterations : {2, MaxIterations}]

PendingCalls ==
    {Pending(fn, a) : fn \in {"americanCallPrice", "americanPutPrice"}, a \in TreeArgs}
    \cup {Pending(fn, a) : fn \in {"callPrice", "putPrice"}, a \in BlackScholesArgs}
    \cup {Pending(fn, a) : fn \in {"mertonCallPrice", "mertonPutPrice"}, a \in MertonArgs}
    \cup {Pending("impliedVolatility", a) : a \in ImpliedVolatilityArgs}

InitKernel ==
    /\ instruments = <<>>
    /\ capacity = 0
    /\ positions = <<>>
    /\ market_data_map = EmptyMap
    /\ market_data_map_ = EmptyMap
    /\ market_data = MarketData("A", 100 * SCALE, 50, 200)
    /\ var_simulations_ = 10000
    /\ time_horizon_days_ = SCALE
    /\ random_seed_ = 0
    /\ use_fixed_seed_ = FALSE
    /\ last \in PendingCalls
    /\ prev = NoRun
    /\ option = CallA

NextKernel ==
    \/ americanCallPriceCalled
    \/ americanPutPriceCalled
    \/ callPriceCalled
    \/ putPriceCalled
    \/ mertonCallPriceCalled
    \/ mertonPutPriceCalled
    \/ impliedVolatilityCalled

SpecKernel == InitKernel /\ [][NextKernel]_vars

\* ------------------------------------------------------------------------
\* Properties
\* ------------------------------------------------------------------------
Calculated == last.op = "calculatePortfolioRisk"
Returned == Calculated /\ last.status = "returned"
Raised == Calculated /\ last.status = "raised"

RECURSIVE WeightedSum(_, _, _, _)
WeightedSum(portfolio, map, metric_name, i) ==
    IF i = 0 THEN 0
    ELSE WeightedSum(portfolio, map, metric_name, i - 1)
         + portfolio[i][2] * metricOf(portfolio[i][1], map[getAssetId(portfolio[i][1])],
                                      metric_name).v

\* C4: a position is unusable when its asset has no entry or an ill-formed one
Unusable(position) ==
    \/ getAssetId(position[1]) \notin DOMAIN market_data_map
    \/ LET md == market_data_map[getAssetId(position[1])]
       IN \/ md.spot_price \in {NaN, PosInf, NegInf} \/ md.spot_price <= 0
          \/ md.volatility \in {NaN, PosInf, NegInf} \/ md.volatility < 0
          \/ md.risk_free_rate \in {NaN, PosInf, NegInf}

\* C4: with a non-empty portfolio holding an unusable position, the call raises
\* for the first such position, and has priced nothing and drawn nothing.
C4_FailFastValidation ==
    (Calculated /\ \E i \in 1..Len(instruments) : Unusable(instruments[i]))
    => LET first == CHOOSE i \in 1..Len(instruments) :
                        /\ Unusable(instruments[i])
                        /\ \A h \in 1..(i - 1) : ~Unusable(instruments[h])
       IN /\ last.status = "raised"
          /\ last.error_pos = first
          /\ last.priced = 0
          /\ last.events = <<>>

C4_Witness ==
    /\ Raised
    /\ Len(instruments) = 2
    /\ ~Unusable(instruments[1])
    /\ Unusable(instruments[2])

\* C5: every returned total is the sum over the positions of quantity times the
\* instrument's metric on the unshocked market data of its asset.
C5_QuantityWeightedSum ==
    (Returned /\ instruments # <<>>)
    => LET n == Len(instruments)
       IN /\ last.result.total_pv = WeightedSum(instruments, market_data_map, "price", n)
          /\ last.result.total_delta = WeightedSum(instruments, market_data_map, "delta", n)
          /\ last.result.total_gamma = WeightedSum(instruments, market_data_map, "gamma", n)
          /\ last.result.total_vega = WeightedSum(instruments, market_data_map, "vega", n)
          /\ last.result.total_theta = WeightedSum(instruments, market_data_map, "theta", n)

C5_Witness ==
    /\ Returned
    /\ Len(instruments) = 2
    /\ instruments[1][2] < 0
    /\ instruments[2][2] > 0
    /\ last.result.total_gamma < 0
    /\ last.result.total_vega # 0
    /\ last.result.total_theta # 0

\* C9: on the empty portfolio the call returns nine zeros whatever the market
\* data map holds, without validating it, pricing anything or drawing anything.
C9_EmptyPortfolioZero ==
    (Calculated /\ instruments = <<>>)
    => /\ last.status = "returned"
       /\ last.result.total_pv = 0 /\ last.result.total_delta = 0
       /\ last.result.total_gamma = 0 /\ last.result.total_vega = 0
       /\ last.result.total_theta = 0
       /\ last.result.value_at_risk_95 = 0 /\ last.result.value_at_risk_99 = 0
       /\ last.result.expected_shortfall_95 = 0 /\ last.result.expected_shortfall_99 = 0
       /\ ~last.validated
       /\ last.priced = 0
       /\ last.events = <<>>

C9_Witness ==
    /\ Returned
    /\ instruments = <<>>
    /\ "A" \in DOMAIN market_data_map
    /\ market_data_map["A"].spot_price = 0


\* the asset and the market data entry of position j of the portfolio
AssetOf(j) == getAssetId(instruments[j][1])
EntryOf(j) == market_data_map[AssetOf(j)]

\* dt and sqrt_dt of the current configuration
HorizonYears == RDiv(time_horizon_days_ * SCALE, 252 * SCALE)

\* the positions of last.events holding a repricing
Repricings == {k \in 1..Len(last.events) : last.events[k].ev = "price"}

\* C1: in fixed-seed mode a call that follows another call, with nothing
\* changed in between, returns or raises exactly what that call did, all nine
\* fields included.
C1_FixedSeedDeterminism ==
    (Calculated /\ prev.status # "none" /\ use_fixed_seed_) => Summary(last) = prev

C1_Witness ==
    /\ Returned
    /\ use_fixed_seed_
    /\ random_seed_ = 42
    /\ prev.status = "returned"
    /\ last.simulated
    /\ last.result.value_at_risk_95 > 0
    /\ last.result.expected_shortfall_95 > 0

\* C2: the events of a call alternate draw and repricing; draw number m
\* (0-based) is made in simulation m div size for position m mod size, and its
\* value gives the spot the position is repriced on before the next draw; a
\* call that returns after simulating has made var_simulations x size draws.
C2_DrawProtocol ==
    Calculated =>
      LET size == Len(instruments)
          events == last.events
      IN /\ \A k \in 1..Len(events) :
               IF k % 2 = 1
               THEN /\ events[k].ev = "draw"
                    /\ events[k].n = (k - 1) \div 2
                    /\ events[k].sim = events[k].n \div size
                    /\ events[k].pos = (events[k].n % size) + 1
               ELSE /\ events[k].ev = "price"
                    /\ events[k].sim = events[k - 1].sim
                    /\ events[k].pos = events[k - 1].pos
                    /\ events[k].n = events[k - 1].n + 1
                    /\ events[k].x = simulatedSpot(EntryOf(events[k].pos), HorizonYears,
                                                   Sqrt(HorizonYears), events[k - 1].x)
         /\ (last.status = "returned" /\ last.simulated)
            => Len(events) = 2 * var_simulations_ * size

C2_Witness ==
    /\ Returned
    /\ last.simulated
    /\ Len(instruments) = 2
    /\ instruments[1][2] = 0
    /\ instruments[2][2] # 0
    /\ Len(last.events) = 2 * MaxSims * 2

\* C3 as stated: two positions on one asset are repriced on the same shocked
\* spot in every simulation.
C3_SharedShockPerAsset ==
    Calculated =>
      \A a, b \in Repricings :
         (/\ last.events[a].sim = last.events[b].sim
          /\ AssetOf(last.events[a].pos) = AssetOf(last.events[b].pos))
         => last.events[a].x = last.events[b].x

\* C3 amended: in one simulation two positions on one asset are each shocked by
\* their own draw; their shocked spots are equal when the two draws are equal
\* or the asset's volatility is 0, and ordered as the draws are otherwise.
C3_ShockPerPosition ==
    Calculated =>
      \A a, b \in Repricings :
         (/\ a # b
          /\ last.events[a].sim = last.events[b].sim
          /\ AssetOf(last.events[a].pos) = AssetOf(last.events[b].pos))
         => LET za == last.events[a - 1]
                zb == last.events[b - 1]
                volatility == EntryOf(last.events[a].pos).volatility
            IN /\ za.ev = "draw" /\ zb.ev = "draw"
               /\ za.n # zb.n
               /\ (za.x = zb.x \/ volatility = 0) => last.events[a].x = last.events[b].x
               /\ (za.x < zb.x /\ volatility > 0) => last.events[a].x < last.events[b].x

C3_Witness ==
    /\ Returned
    /\ \E a, b \in Repricings :
          /\ last.events[a].sim = last.events[b].sim
          /\ last.events[a].pos # last.events[b].pos
          /\ AssetOf(last.events[a].pos) = AssetOf(last.events[b].pos)
          /\ last.events[a].x < last.events[b].x

\* C8: every returned VaR and ES is non-negative.
C8_LossesNonNegative ==
    Returned =>
      /\ last.result.value_at_risk_95 >= 0
      /\ last.result.value_at_risk_99 >= 0
      /\ last.result.expected_shortfall_95 >= 0
      /\ last.result.expected_shortfall_99 >= 0

\* C10: a returning call on a non-empty portfolio whose initial value V0 is
\* below the threshold in absolute value has made no draw and reports four zero
\* risk measures beside the five computed totals; otherwise it has run all
\* var_simulations simulations.
C10_ZeroValueShortcut ==
    (Returned /\ instruments # <<>>)
    => LET size == Len(instruments)
           V0 == WeightedSum(instruments, market_data_map, "price", size)
       IN IF -ZeroValueThreshold < V0 /\ V0 < ZeroValueThreshold
          THEN /\ ~last.simulated
               /\ last.events = <<>>
               /\ last.pnl = <<>>
               /\ last.result.value_at_risk_95 = 0 /\ last.result.value_at_risk_99 = 0
               /\ last.result.expected_shortfall_95 = 0
               /\ last.result.expected_shortfall_99 = 0
               /\ last.result.total_pv = V0
               /\ last.result.total_delta
                    = WeightedSum(instruments, market_data_map, "delta", size)
               /\ last.result.total_vega
                    = WeightedSum(instruments, market_data_map, "vega", size)
          ELSE /\ last.simulated
               /\ Len(last.pnl) = var_simulations_
               /\ Cardinality({k \in 1..Len(last.events) : last.events[k].ev = "draw"})
                    = var_simulations_ * size

C10_Witness ==
    /\ Returned
    /\ ~last.simulated
    /\ Len(instruments) = 2
    /\ instruments[1][2] = 1
    /\ instruments[2][2] = -1
    /\ last.result.total_pv = 0
    /\ last.result.total_delta = 0


\* C11: once calculatePortfolioRisk has returned or raised, the portfolio and
\* the market data map are exactly what the call was given, and every shocked
\* MarketData an instrument was repriced on is the entry of the position's
\* asset with nothing but spot_price replaced.
C11_InputsNotMutated ==
    Calculated =>
      /\ instruments = last.before[1]
      /\ market_data_map = last.before[2]
      /\ \A k \in Repricings :
            /\ last.events[k].md.asset_id = EntryOf(last.events[k].pos).asset_id
            /\ last.events[k].md.risk_free_rate = EntryOf(last.events[k].pos).risk_free_rate
            /\ last.events[k].md.volatility = EntryOf(last.events[k].pos).volatility
            /\ last.events[k].md.dividend_yield = EntryOf(last.events[k].pos).dividend_yield
            /\ last.events[k].md.spot_price = last.events[k].x

C11_Witness ==
    /\ Returned
    /\ Len(instruments) = 2
    /\ \E k \in Repricings :
          /\ last.events[k].md.spot_price # EntryOf(last.events[k].pos).spot_price
          /\ last.events[k].md.dividend_yield > 0

\* C12: after any constructor and setter calls var_simulations is in
\* [1, 1000000] and time_horizon_days is in (0, 252], and a call that raised
\* has left the four configuration members as they were.
C12_ConfigurationInvariant ==
    /\ 1 <= var_simulations_ /\ var_simulations_ <= 1000000
    /\ IsFinite(time_horizon_days_)
    /\ 0 < time_horizon_days_ /\ time_horizon_days_ <= 252 * SCALE
    /\ last.status = "raised"
       => <<var_simulations_, time_horizon_days_, random_seed_, use_fixed_seed_>>
            = last.before

\* C13: getInstruments() is the sequence the calls made so far describe
\* (append on add, delete the i-th on remove, replace one quantity on
\* update_quantity, empty on clear, nothing on reserve); size() is its length
\* and empty() says whether that is 0.
C13_InsertionOrderedSequence ==
    /\ instruments = positions
    /\ portfolioSize(instruments) = Len(positions)
    /\ portfolioEmpty(instruments) = (positions = <<>>)

C13_Witness ==
    /\ last.op = "removeInstrument"
    /\ last.status = "returned"
    /\ last.args = <<0>>
    /\ last.size = 3
    /\ Len(instruments) = 2
    /\ instruments[1] # instruments[2]
    /\ instruments[2][2] = 0

\* a Portfolio call made with an argument the method has to reject
BadPortfolioCall ==
    CASE last.op = "addInstrument" ->
           IF last.args = <<>> THEN TRUE ELSE getAssetId(last.args[1]) = ""
      [] last.op \in {"removeInstrument", "updateQuantity"} -> last.args[1] >= last.size
      [] last.op = "getTotalQuantityForAsset" -> last.args[1] = ""
      [] OTHER -> FALSE

\* C14: add with a null instrument or an empty asset id and
\* getTotalQuantityForAsset with an empty id raise an invalid-argument error,
\* remove and update_quantity with an index >= size() raise a range error, and
\* the positions are then what they were before the call.
C14_RejectsBadArguments ==
    BadPortfolioCall =>
      /\ last.status = "raised"
      /\ last.error = IF last.op \in {"removeInstrument", "updateQuantity"}
                      THEN "out_of_range" ELSE "invalid_argument"
      /\ instruments = last.before

C14_Witness ==
    /\ last.op = "updateQuantity"
    /\ last.status = "raised"
    /\ last.args[1] = Len(instruments)
    /\ Len(instruments) = 2

\* the exact sum of the quantities of the first n positions on an asset, as a
\* pair <<h, l>> standing for h * 65536 + l with l in 0..65535
RECURSIVE Wide(_, _, _)
Wide(v, asset_id, n) ==
    IF n = 0 THEN <<0, 0>>
    ELSE LET w == Wide(v, asset_id, n - 1)
             q == IF getAssetId(v[n][1]) = asset_id THEN v[n][2] ELSE 0
         IN <<w[1] + (q \div 65536) + ((w[2] + (q % 65536)) \div 65536),
              (w[2] + (q % 65536)) % 65536>>

InIntRange(w) == -32768 <= w[1] /\ w[1] <= 32767
Narrow(w) == w[1] * 65536 + w[2]

QuantityTotalled == last.op = "getTotalQuantityForAsset" /\ last.args[1] # ""

\* C15 as stated: the call returns the signed sum of the matching quantities
\* when that sum is a signed 32-bit integer and raises an overflow error when
\* it is not.
C15_SignedSum ==
    QuantityTotalled =>
      IF InIntRange(Wide(instruments, last.args[1], Len(instruments)))
      THEN /\ last.status = "returned"
           /\ last.value = Narrow(Wide(instruments, last.args[1], Len(instruments)))
      ELSE /\ last.status = "raised"
           /\ last.error = "overflow_error"

\* C15 amended: the matching quantities are added in portfolio order; the call
\* returns their signed sum when every running sum is a signed 32-bit integer,
\* and raises an overflow error when one is not, also when the complete sum
\* is; a returned value is never a wrapped-around one.
C15_RunningSum ==
    QuantityTotalled =>
      IF \A n \in 0..Len(instruments) : InIntRange(Wide(instruments, last.args[1], n))
      THEN /\ last.status = "returned"
           /\ last.value = Narrow(Wide(instruments, last.args[1], Len(instruments)))
      ELSE /\ last.status = "raised"
           /\ last.error = "overflow_error"

C15_Witness ==
    /\ QuantityTotalled
    /\ last.status = "raised"
    /\ last.error = "overflow_error"
    /\ InIntRange(Wide(instruments, last.args[1], Len(instruments)))

\* the positions in the opposite order
Reversed(v) == [i \in 1..Len(v) |-> v[Len(v) + 1 - i]]

\* the first position at which the exact running sum is outside the int
\* range, 0 when there is none
FirstOutside(v, asset_id) ==
    IF \A n \in 1..Len(v) : InIntRange(Wide(v, asset_id, n)) THEN 0
    ELSE CHOOSE n \in 1..Len(v) :
            /\ ~InIntRange(Wide(v, asset_id, n))
            /\ \A m \in 1..(n - 1) : InIntRange(Wide(v, asset_id, m))

\* C29: getTotalQuantityForAsset tests the running partial sum before each
\* addition: it raises the overflow error exactly when some prefix sum of the
\* matching quantities, in portfolio order, is outside [INT_MIN, INT_MAX] and
\* otherwise returns the exact sum; up to the failing position the
\* accumulator holds in-range prefix sums only; the same positions in the
\* opposite order give the same sum or raise
C29_PrefixSumOverflow ==
    QuantityTotalled =>
      LET k == FirstOutside(instruments, last.args[1])
          opposite == totalFrom(Reversed(instruments), last.args[1], 1, 0)
      IN /\ (last.status = "raised") <=> (k > 0)
         /\ last.status = "raised" => last.error = "overflow_error"
         /\ last.status = "returned"
               => /\ last.value = Narrow(Wide(instruments, last.args[1], Len(instruments)))
                  /\ INT_MIN <= last.value /\ last.value <= INT_MAX
                  /\ opposite.ok => opposite.v = last.value
         /\ k > 0
               => /\ getAssetId(instruments[k][1]) = last.args[1]
                  /\ ~totalFrom(instruments, last.args[1], k,
                                Narrow(Wide(instruments, last.args[1], k - 1))).ok
                  /\ totalFrom(SubSeq(instruments, 1, k - 1), last.args[1], 1, 0)
                       = Ok(Narrow(Wide(instruments, last.args[1], k - 1)))

\* positions INT_MAX, 1, -1 on one asset: the call raises at the second
\* position, the complete sum INT_MAX is representable, and the same positions
\* in the opposite order give that sum
C29_Witness ==
    /\ QuantityTotalled
    /\ last.status = "raised"
    /\ last.error = "overflow_error"
    /\ FirstOutside(instruments, last.args[1]) = 2
    /\ Len(instruments) = 3
    /\ totalFrom(Reversed(instruments), last.args[1], 1, 0) = Ok(INT_MAX)

\* the extraction step has run
Extracted == last.op = "calculateRiskMetrics"

\* the j-th smallest value of a distribution, j = 1..Len(pnl)
Smallest(pnl, j) ==
    CHOOSE v \in {pnl[i] : i \in 1..Len(pnl)} :
        /\ Cardinality({i \in 1..Len(pnl) : pnl[i] < v}) < j
        /\ Cardinality({i \in 1..Len(pnl) : pnl[i] <= v}) >= j

\* the sum of the j smallest values, added from the smallest on as doubles
RECURSIVE TailSum(_, _)
TailSum(pnl, j) == IF j = 0 THEN 0 ELSE Round(TailSum(pnl, j - 1) + Smallest(pnl, j))

\* C6: with N = var_simulations and k = floor((1 - c) N), VaR_c is minus the
\* (k+1)-th smallest P&L and ES_c is minus the mean of the k+1 smallest.
C6_Extraction ==
    Extracted =>
      LET n == var_simulations_
          k95 == (5 * n) \div 100
          k99 == (1 * n) \div 100
          metrics == last.out.metrics
      IN /\ last.out.ok
         /\ metrics.var_95 = -Smallest(last.pnl, k95 + 1)
         /\ metrics.var_99 = -Smallest(last.pnl, k99 + 1)
         /\ metrics.es_95 = Round(RDiv(-TailSum(last.pnl, k95 + 1), k95 + 1))
         /\ metrics.es_99 = Round(RDiv(-TailSum(last.pnl, k99 + 1), k99 + 1))

C6_Witness ==
    /\ Extracted
    /\ var_simulations_ = MaxVaRSims
    /\ \E i \in 1..(MaxVaRSims - 1) : last.pnl[i] > last.pnl[i + 1]
    /\ last.out.metrics.var_99 > last.out.metrics.var_95
    /\ last.out.metrics.es_95 > last.out.metrics.var_95
    /\ last.out.metrics.es_99 > last.out.metrics.es_95

\* C7: VaR99 >= VaR95, ES95 >= VaR95, ES99 >= VaR99 and ES99 >= ES95 in every
\* extracted set of risk measures.
C7_Ordering ==
    (Extracted /\ last.out.ok) =>
      /\ last.out.metrics.var_99 >= last.out.metrics.var_95
      /\ last.out.metrics.es_95 >= last.out.metrics.var_95
      /\ last.out.metrics.es_99 >= last.out.metrics.var_99
      /\ last.out.metrics.es_99 >= last.out.metrics.es_95

\* simulation counts at and around the limits of validateParameters and at
\* the multiples of 20 and 100 where an index steps
SampledSims ==
    (1..(MaxVaRSims + 1)) \cup {119, 120, 199, 200, 999, 1000, 99999, 100000,
                                999980, 999999, 1000000}

IndicesInRange(n) ==
    /\ 0 <= index_99(n)
    /\ index_99(n) <= index_95(n)
    /\ index_95(n) < n

\* C28: for every var_simulations N in [1, 1000000] the indices k95 and k99
\* satisfy 0 <= k99 <= k95 < N, so the extraction never fails on an index,
\* never reads outside the P&L vector and averages over k + 1 >= 1 elements;
\* for N < 20 both VaR values are minus the smallest P&L
C28_IndicesInRange ==
    /\ \A n \in SampledSims : IndicesInRange(n)
    /\ Extracted
       => /\ validateParameters(var_simulations_, time_horizon_days_)
          /\ IndicesInRange(var_simulations_)
          /\ index_95(var_simulations_) + 1 <= Len(last.pnl)
          /\ last.out.ok
          /\ var_simulations_ < 20
                => /\ last.out.metrics.var_95 = -Smallest(last.pnl, 1)
                   /\ last.out.metrics.var_99 = -Smallest(last.pnl, 1)

\* 19 simulations with distinct outcomes: both VaR values are the one worst
\* loss, which the second worst does not reach
C28_Witness ==
    /\ Extracted
    /\ var_simulations_ = 19
    /\ last.out.ok
    /\ Smallest(last.pnl, 1) < Smallest(last.pnl, 2)
    /\ last.out.metrics.var_95 = last.out.metrics.var_99
    /\ last.out.metrics.var_95 = -Smallest(last.pnl, 1)
    /\ last.out.metrics.var_95 > 0

\* ------------------------------------------------------------------------
\* MarketDataManager and MarketData
\* ------------------------------------------------------------------------
\* the call that led to this state was one of the manager's mutations or get
MutationOrGet ==
    last.op \in {"addMarketData", "updateMarketData", "getMarketData", "removeMarketData"}

\* what holds after an add or update that returned, and after any of the
\* four that raised
StoredAndFramed ==
    /\ (last.op = "addMarketData" /\ last.status = "returned") =>
           /\ lookup(market_data_map_, last.args[1]).status = "returned"
           /\ lookup(market_data_map_, last.args[1]).value = last.args[2]
           /\ Cardinality(DOMAIN market_data_map_) = last.size + 1
           /\ \A k \in DOMAIN last.before : market_data_map_[k] = last.before[k]
    /\ (last.op = "updateMarketData" /\ last.status = "returned") =>
           /\ lookup(market_data_map_, last.args[1]).status = "returned"
           /\ lookup(market_data_map_, last.args[1]).value = last.args[2]
           /\ Cardinality(DOMAIN market_data_map_) = last.size
           /\ \A k \in DOMAIN last.before \ {last.args[1]} :
                  market_data_map_[k] = last.before[k]
    /\ (last.op \in {"getMarketData", "removeMarketData"}
            /\ last.args[1] \notin DOMAIN last.before) => last.status = "raised"
    /\ (MutationOrGet /\ last.status = "raised") => market_data_map_ = last.before

\* C16 as stated: MarketDataStore is a map with checked mutation, where add
\* succeeds exactly when the id is not yet a key and update exactly when it
\* is one; then get(id) returns md and size() grew by one (add) or stayed
\* (update); get and remove raise on a missing id; a call that raises leaves
\* the mapping as it was
C16_CheckedMutation ==
    /\ last.op = "addMarketData" =>
           (last.status = "returned" <=> last.args[1] \notin DOMAIN last.before)
    /\ last.op = "updateMarketData" =>
           (last.status = "returned" <=> last.args[1] \in DOMAIN last.before)
    /\ StoredAndFramed

\* C16 amended: add succeeds exactly when the id is non-empty, md passes
\* MarketData validation and the id is not yet a key; update exactly when the
\* id is non-empty, md passes validation and the id is a key; the rest as in
\* the statement above
C16_ValidatedMutation ==
    /\ last.op = "addMarketData" =>
           (last.status = "returned" <=>
                /\ last.args[1] # ""
                /\ validate(last.args[2])
                /\ last.args[1] \notin DOMAIN last.before)
    /\ last.op = "updateMarketData" =>
           (last.status = "returned" <=>
                /\ last.args[1] # ""
                /\ validate(last.args[2])
                /\ last.args[1] \in DOMAIN last.before)
    /\ StoredAndFramed

\* an update that replaced an entry by a different one, stored under a key
\* that is not the asset id of the data, with another entry beside it
C16_Witness ==
    /\ last.op = "updateMarketData"
    /\ last.status = "returned"
    /\ last.before[last.args[1]] # last.args[2]
    /\ last.args[2].asset_id # last.args[1]
    /\ last.size = 2

\* C17: every operation of MarketDataStore that takes an asset id (add,
\* update, get, has, remove) raises an error when the id is empty
C17_EmptyIdRejected ==
    (/\ last.op \in {"addMarketData", "updateMarketData", "getMarketData",
                     "hasMarketData", "removeMarketData"}
     /\ last.args[1] = "") => last.status = "raised"

\* C18: every MarketData object that exists, the one the caller holds and
\* the ones in the store, however constructed and after any field assignment,
\* has a non-empty asset_id, spot_price > 0, volatility >= 0,
\* dividend_yield >= 0 and finite numeric fields
C18_ValidityInvariant ==
    /\ market_data.asset_id # ""
    /\ IsFinite(market_data.spot_price) /\ market_data.spot_price > 0
    /\ IsFinite(market_data.volatility) /\ market_data.volatility >= 0
    /\ IsFinite(market_data.dividend_yield) /\ market_data.dividend_yield >= 0
    /\ IsFinite(market_data.risk_free_rate)
    /\ \A k \in DOMAIN market_data_map_ : isValidMarketData(market_data_map_[k])


\* ------------------------------------------------------------------------
\* Options: signs of price, gamma and vega
\* ------------------------------------------------------------------------
\* C19: every value gamma(md) or vega(md) returns, for a EuropeanOption under
\* any of its three models and for an AmericanOption, on well-formed market
\* data, is >= 0
C19_GammaVegaNonNegative ==
    (last.op \in {"gamma", "vega"} /\ last.status = "returned") => last.value >= 0

\* C20: every value price(md) returns, for a EuropeanOption under any of its
\* three models and for an AmericanOption, is finite and >= 0, and price
\* raises when its kernel hands it a negative or non-finite number
C20_PricesNonNegative ==
    last.op = "price" =>
        /\ last.status = "returned" => (IsFinite(last.value) /\ last.value >= 0)
        /\ (last.kernel.ok /\ (~IsFinite(last.kernel.v) \/ last.kernel.v < 0))
               => last.status = "raised"

\* a kernel has handed price a negative number, and price raised
C20_Witness ==
    /\ last.op = "price"
    /\ last.kernel.ok
    /\ last.kernel.v < 0
    /\ last.status = "raised"

\* ------------------------------------------------------------------------
\* The pricing kernels on their own
\* ------------------------------------------------------------------------
TreeCalled == last.op \in {"americanCallPrice", "americanPutPrice"}

\* C21: whenever the probability p = (e^(r dt) - d) / (u - d) of the tree lies
\* outside [0, 1], the binomial kernel fails with a numerical error and
\* returns no price
C21_ProbabilityGuard ==
    (/\ TreeCalled
     /\ last.detail.built
     /\ (IsNan(last.detail.p) \/ last.detail.p < 0 \/ last.detail.p > SCALE))
    => last.status = "raised"


\* the American and the European values of the tree of the call, layer by
\* layer from maturity to the root: at every node the American value is at
\* least the payoff of exercising there and at least the European value
RECURSIVE Dominates(_, _, _, _, _)
Dominates(type, args, step, american, european) ==
    \/ step < 0
    \/ LET tree == last.detail.tree
           p == last.detail.p
           am == layer(type, args.S, args.K, tree, p, TRUE, step, american)
           eu == layer(type, args.S, args.K, tree, p, FALSE, step, european)
       IN /\ \A j \in 1..(step + 1) :
                 /\ am[j] >= payoff(type, nodeSpot(args.S, tree, step, j - 1), args.K)
                 /\ am[j] >= eu[j]
          /\ Dominates(type, args, step - 1, am, eu)

TreeType == IF last.op = "americanCallPrice" THEN "Call" ELSE "Put"

\* C22: whenever 0 <= p <= 1, at every node of the tree and at the root the
\* American value max(hold, intrinsic at the node) is at least the intrinsic
\* value at that node and at least the European value (hold alone) of the
\* same tree; the price returned is the root's American value
C22_EarlyExerciseDominance ==
    (/\ TreeCalled
     /\ last.detail.built
     /\ last.detail.p >= 0 /\ last.detail.p <= SCALE)
    => /\ Dominates(TreeType, last.args, last.detail.steps - 1,
                    maturityValues(TreeType, last.args.S, last.args.K, last.detail.tree,
                                   last.detail.steps),
                    maturityValues(TreeType, last.args.S, last.args.K, last.detail.tree,
                                   last.detail.steps))
       /\ last.status = "returned"
       /\ last.value >= payoff(TreeType, last.args.S, last.args.K)
       /\ last.value >= induction(TreeType, last.args.S, last.args.K, last.detail.tree,
                                  last.detail.p, FALSE, last.detail.steps - 1,
                                  maturityValues(TreeType, last.args.S, last.args.K,
                                                 last.detail.tree, last.detail.steps))

\* a put deep in the money on a tree of several steps with p in [0, 1]:
\* exercising at the root is worth more than holding
C22_Witness ==
    /\ last.op = "americanPutPrice"
    /\ last.detail.built
    /\ last.detail.steps > 1
    /\ last.detail.p >= 0 /\ last.detail.p <= SCALE
    /\ last.value = last.args.K - last.args.S
    /\ last.value > induction("Put", last.args.S, last.args.K, last.detail.tree,
                              last.detail.p, FALSE, last.detail.steps - 1,
                              maturityValues("Put", last.args.S, last.args.K,
                                             last.detail.tree, last.detail.steps))


\* the kernels and the payoff each of them prices
KernelType ==
    IF last.op \in {"callPrice", "americanCallPrice", "mertonCallPrice"} THEN "Call" ELSE "Put"

PricingKernels ==
    {"callPrice", "putPrice", "americanCallPrice", "americanPutPrice",
     "mertonCallPrice", "mertonPutPrice"}

\* the arguments pass the validation of the kernel called (the American tree
\* has none)
KernelAccepts ==
    CASE last.op \in {"callPrice", "putPrice"} ->
             validateInputs(last.args.S, last.args.K, last.args.r, last.args.T,
                            last.args.sigma)
      [] last.op \in {"mertonCallPrice", "mertonPutPrice"} ->
             ~(LtZero(last.args.sigma) \/ LtZero(last.args.jump_vol)
               \/ LtZero(last.args.lambda))
      [] OTHER -> TRUE

\* C23 (amended): at T = 0, for S > 0 and K > 0 and other arguments that
\* the kernel's validation accepts, every pricing kernel (Black-Scholes call
\* and put, American tree call and put, Merton call and put) returns exactly
\* the intrinsic value max(S - K, 0) or max(K - S, 0), whatever r, sigma, the
\* number of steps and the jump parameters are
C23_IntrinsicAtExpiry ==
    (/\ last.op \in PricingKernels
     /\ last.args.T = 0
     /\ last.args.S > 0 /\ last.args.K > 0
     /\ KernelAccepts)
    => /\ last.status = "returned"
       /\ last.value = payoff(KernelType, last.args.S, last.args.K)

\* C23 as stated: at T = 0, for any S > 0 and K > 0, every pricing kernel
\* returns the intrinsic value whatever the other arguments are
C23_IntrinsicWhateverArguments ==
    (/\ last.op \in PricingKernels
     /\ last.args.T = 0
     /\ last.args.S > 0 /\ last.args.K > 0)
    => /\ last.status = "returned"
       /\ last.value = payoff(KernelType, last.args.S, last.args.K)

\* a Merton call in the money at expiry, with jumps
C23_Witness ==
    /\ last.op = "mertonCallPrice"
    /\ last.args.T = 0
    /\ last.args.lambda > 0 /\ last.args.jump_vol > 0
    /\ last.status = "returned"
    /\ last.value = last.args.S - last.args.K
    /\ last.value > 0


\* ------------------------------------------------------------------------
\* Scaling of the portfolio
\* ------------------------------------------------------------------------
\* the portfolio with every quantity multiplied by k
Scaled(portfolio, k) == [j \in 1..Len(portfolio) |-> <<portfolio[j][1], k * portfolio[j][2]>>]

\* the call repeated on the scaled portfolio: same engine, same market data
ScaledRisk(k, rd) ==
    portfolioRisk(Scaled(instruments, k), market_data_map, var_simulations_,
                  time_horizon_days_, use_fixed_seed_, random_seed_, rd)

ScaleFactors == {2, 3}

\* the four risk figures of scaled are k times those of the last call
ScaledBy(k, scaled) ==
    /\ scaled.status = "returned"
    /\ scaled.result.value_at_risk_95 = k * last.result.value_at_risk_95
    /\ scaled.result.value_at_risk_99 = k * last.result.value_at_risk_99
    /\ scaled.result.expected_shortfall_95 = k * last.result.expected_shortfall_95
    /\ scaled.result.expected_shortfall_99 = k * last.result.expected_shortfall_99

GtZero(x) == ~IsNan(x) /\ ~LeZero(x)
GeZero(x) == ~IsNan(x) /\ ~LtZero(x)

ParametersValid(inst) ==
    /\ GtZero(inst.strike_price_)
    /\ GeZero(inst.time_to_expiry_years_)
    /\ inst.underlying_asset_id_ # ""
    /\ inst.binomial_steps_ >= 1 /\ inst.binomial_steps_ <= 10000
    /\ inst.class = "EuropeanOption"
          => (GeZero(inst.jump_intensity_) /\ GeZero(inst.jump_volatility_))

\* C25: after any sequence of constructor and setter calls on a European or
\* American option, those that raise included, strike > 0, time to expiry
\* >= 0, the asset id is not empty, binomial_steps is in [1, 10000], jump
\* intensity >= 0 and jump volatility >= 0; a rejected setBinomialSteps or
\* setJumpParameters leaves every parameter as it was, and setJumpParameters
\* changes its three parameters together or not at all
C25_OptionInvariant ==
    /\ ParametersValid(option)
    /\ (last.op \in {"setBinomialSteps", "setJumpParameters"} /\ last.status = "raised")
          => option = last.inst
    /\ (last.op = "setJumpParameters" /\ last.status = "returned")
          => /\ option.jump_intensity_ = last.args[1]
             /\ option.jump_mean_ = last.args[2]
             /\ option.jump_volatility_ = last.args[3]


\* ------------------------------------------------------------------------
\* The implied-volatility search and the Merton series
\* ------------------------------------------------------------------------
\* C26: after every Newton-Raphson update sigma lies in the interval from 0.01
\* to 10.0, so that every iterate priced in the next iteration satisfies
\* 0.01 <= sigma <= 10.0, and the search ends within max_iterations
\* iterations by returning a volatility or raising
C26_IterateInRange ==
    last.op = "impliedVolatility"
    => /\ \A i \in 1..Len(last.detail.iterates) :
              /\ last.detail.iterates[i] >= 10
              /\ last.detail.iterates[i] <= 10 * SCALE
       /\ Len(last.detail.iterates) <= last.args.max_iterations
       /\ last.status \in {"returned", "raised"}


MertonCalled == last.op \in {"mertonCallPrice", "mertonPutPrice"}

\* the weight of term n of the series of the call: below 1e-10, below 1e-8
TermBelow(n, log_bound) ==
    probabilityBelow(n, Mul(last.args.lambda, last.args.T),
                     IF Mul(last.args.lambda, last.args.T) = 0 THEN 0
                     ELSE logProbability(n, Mul(last.args.lambda, last.args.T)),
                     log_bound)

\* the loop of a call that summed terms 0 .. terms-1 stopped for one of the
\* three reasons, and no earlier term gave it a reason to stop
StoppedWhereDue(series, jumps) ==
    /\ \/ series.terms = jumps + 1
       \/ TermBelow(series.terms, Log1em10)
       \/ (series.terms > 0 /\ series.sum_prob >= SCALE
           /\ TermBelow(series.terms - 1, Log1em8))
    /\ \A n \in 0..(series.terms - 1) : ~TermBelow(n, Log1em10)

\* C27 (amended): for T > 0 the loop stops as soon as w_n < 1e-10, or when
\* the cumulative weight exceeds 0.9999 and w_n < 1e-8, or after the term
\* n = max_jumps; it always terminates, having added at most max_jumps + 1
\* Black-Scholes terms, and for lambda T = 0 it returns exactly the
\* Black-Scholes price of the term n = 0
C27_SeriesTermination ==
    (MertonCalled /\ last.detail.summed)
    => /\ last.detail.series.terms >= 0
       /\ last.detail.series.terms <= last.args.max_jumps + 1
       /\ StoppedWhereDue(last.detail.series, last.args.max_jumps)
       /\ Mul(last.args.lambda, last.args.T) = 0
             => /\ last.detail.series.terms = 1
                /\ last.status = "returned"
                /\ last.value =
                     (IF last.op = "mertonCallPrice"
                      THEN callPrice(last.args.S, last.args.K, last.args.r, last.args.T,
                                     last.args.sigma)
                      ELSE putPrice(last.args.S, last.args.K, last.args.r, last.args.T,
                                    last.args.sigma))

\* C27 as stated: at most max_jumps terms are added
C27_AtMostMaxJumpsTerms ==
    (MertonCalled /\ last.detail.summed)
    => last.detail.series.terms <= last.args.max_jumps

\* a series cut by max_jumps with weights still above the thresholds
C27_Witness ==
    /\ MertonCalled
    /\ last.detail.summed
    /\ last.args.max_jumps = 2
    /\ last.detail.series.terms = 3
    /\ ~TermBelow(3, Log1em10)
    /\ last.status = "returned"


\* C30: the test w_n < 1e-10 is made before the n-th term is added and
\* applies at n = 0 already: when e^(-lambda T) < 1e-10 the loop adds no term,
\* the cumulative weight stays 0 and mertonCallPrice / mertonPutPrice return
\* the price 0, which the result check of EuropeanOption::price lets pass; in
\* every other case the term n = 0 is part of the sum
C30_EmptySeries ==
    (MertonCalled /\ last.detail.summed)
    => IF TermBelow(0, Log1em10)
       THEN /\ last.detail.series = Series(0, 0, 0)
            /\ last.status = "returned"
            /\ last.value = 0
            /\ nonNegativeResult(last.value) = Ok(0)
       ELSE /\ last.detail.series.terms >= 1
            /\ last.detail.series.sum_prob
                 >= poissonProbability(0, Mul(last.args.lambda, last.args.T))
            /\ last.detail.series.sum_prob > 0
            /\ last.detail.series.option_value
                 >= weightedPrice([S |-> last.args.S, K |-> last.args.K, r |-> last.args.r,
                                   T |-> last.args.T, sigma |-> last.args.sigma,
                                   type |-> KernelType,
                                   lambda |-> last.args.lambda,
                                   jump_mean |-> last.args.jump_mean,
                                   jump_vol |-> last.args.jump_vol,
                                   k |-> Exp(last.args.jump_mean
                                              + RDiv(Mul(last.args.jump_vol,
                                                         last.args.jump_vol), 2))
                                         - SCALE,
                                   max_jumps |-> last.args.max_jumps],
                                  0, poissonProbability(0, Mul(last.args.lambda, last.args.T)))

\* an in-the-money call with lambda T = 24 priced at 0
C30_Witness ==
    /\ last.op = "mertonCallPrice"
    /\ last.detail.summed
    /\ Mul(last.args.lambda, last.args.T) = 24 * SCALE
    /\ last.args.S > last.args.K
    /\ last.args.max_jumps = max_jumps
    /\ last.detail.series.terms = 0
    /\ last.status = "returned"
    /\ last.value = 0

============================================================================
